---- MODULE Spec2Model ----
(***************************************************************************)
(* Model of the lyrics core of the choreography server (src/server.py):    *)
(* normalize_text_for_comparison, text_similarity, align_manual_lyrics and *)
(* analyze_lyrics_structure, and of the lyric storage (src/db.py):         *)
(* get_lyrics, save_lyrics and update_lyrics_timestamps.                   *)
(*                                                                         *)
(* Conventions                                                             *)
(*  - a text is a sequence of one-character strings;                       *)
(*  - a time is an integer number of milliseconds (1 s = 1000), so that    *)
(*    round(x, 2) is a real operation (rounding to a multiple of 10);      *)
(*  - a ratio (similarity, position, penalty) is a pair <<num, den>> with  *)
(*    den > 0, compared by cross multiplication;                           *)
(*  - the code computes ratios in IEEE-754 doubles.  Wherever two values   *)
(*    the code compares are different real numbers the double comparison   *)
(*    agrees with the exact one; where they are the same real number the   *)
(*    rounding errors decide, and the outcome is tabulated from the double *)
(*    evaluation of the source expression (PenaltyRoundedAbove,            *)
(*    AdjustedRoundedAbove, RoundedAwayFromEven).  The tables cover up to  *)
(*    six lines and six reference segments and the similarities 1, 1/2 and *)
(*    1/10 of the texts used here.                                         *)
(***************************************************************************)
EXTENDS Integers, Sequences, FiniteSets, TLC

(***************************************************************************)
(* Characters and texts                                                    *)
(***************************************************************************)
LowerLetters ==
    {"a","b","c","d","e","f","g","h","i","j","k","l","m",
     "n","o","p","q","r","s","t","u","v","w","x","y","z"}

UpperLetters == {"A", "B", "H", "W"}

Digits == {"0","1","2","3","4","5","6","7","8","9"}

\* str.lower() on one character
LowerChar(c) ==
    CASE c = "A" -> "a"
      [] c = "B" -> "b"
      [] c = "H" -> "h"
      [] c = "W" -> "w"
      [] OTHER   -> c

\* the regular expression class \w
IsWordChar(c) == c \in LowerLetters \cup UpperLetters \cup Digits \cup {"_"}

\* the regular expression class \s, and the characters str.strip() and
\* str.split() treat as white space
IsSpace(c) == c \in {" ", "\n", "\t"}

\* str.lower()
Lower(text) == [k \in 1..Len(text) |-> LowerChar(text[k])]

\* re.sub(r'[^\w\s]', '', text)
KeepWordOrSpace(c) == IsWordChar(c) \/ IsSpace(c)

RemovePunctuation(text) == SelectSeq(text, KeepWordOrSpace)

\* the k-th smallest element of a finite set of integers
Nth(S, k) == CHOOSE x \in S : Cardinality({y \in S : y < x}) = k - 1

\* str.split(): the maximal runs of non-space characters, in order
Split(text) ==
    LET first == { k \in 1..Len(text) :
                     /\ ~IsSpace(text[k])
                     /\ (k = 1 \/ IsSpace(text[k - 1])) }
        last  == { k \in 1..Len(text) :
                     /\ ~IsSpace(text[k])
                     /\ (k = Len(text) \/ IsSpace(text[k + 1])) }
    IN  [w \in 1..Cardinality(first) |->
            SubSeq(text, Nth(first, w), Nth(last, w))]

\* sep.join(parts)
RECURSIVE JoinFrom(_, _, _)
JoinFrom(parts, sep, k) ==
    IF k > Len(parts) THEN <<>>
    ELSE IF k = Len(parts) THEN parts[k]
    ELSE parts[k] \o sep \o JoinFrom(parts, sep, k + 1)

Join(parts, sep) == JoinFrom(parts, sep, 1)

\* str.split('\n'): the pieces between newlines, empty pieces included
SplitLines(text) ==
    LET breaks == { k \in 1..Len(text) : text[k] = "\n" }
        from(l) == IF l = 1 THEN 1 ELSE Nth(breaks, l - 1) + 1
        to(l)   == IF l = Cardinality(breaks) + 1 THEN Len(text)
                   ELSE Nth(breaks, l) - 1
    IN  [l \in 1..(Cardinality(breaks) + 1) |-> SubSeq(text, from(l), to(l))]

\* str.strip()
Strip(text) ==
    LET solid == { k \in 1..Len(text) : ~IsSpace(text[k]) }
    IN  IF solid = {} THEN <<>>
        ELSE SubSeq(text, Nth(solid, 1), Nth(solid, Cardinality(solid)))

\* the normalization with white space collapsed before the punctuation is
\* removed
normalize_collapsing_first(text) ==
    RemovePunctuation(Join(Split(Lower(text)), <<" ">>))

normalize_text_for_comparison(text) ==
    Join(Split(RemovePunctuation(Lower(text))), <<" ">>)

SeqToSet(s) == {s[k] : k \in 1..Len(s)}

\* the ratio without the test for an empty word set
JaccardUnguarded(words1, words2) ==
    <<Cardinality(words1 \cap words2), Cardinality(words1 \cup words2)>>

\* the ratio with the sizes of the two sets added up for the union
JaccardOverSum(words1, words2) ==
    IF words1 = {} \/ words2 = {} THEN <<0, 1>>
    ELSE <<Cardinality(words1 \cap words2),
           Cardinality(words1) + Cardinality(words2)>>

\* lines 183-190 on the two word sets; the result is the Jaccard ratio
\* <<|intersection|, |union|>>, <<0, 1>> standing for 0.0
Jaccard(words1, words2) ==
    IF words1 = {} \/ words2 = {} THEN <<0, 1>>
    ELSE IF Cardinality(words1 \cup words2) > 0
         THEN <<Cardinality(words1 \cap words2),
                Cardinality(words1 \cup words2)>>
         ELSE <<0, 1>>

\* the similarity as the share of the words of text1 found in text2
text_similarity_over_first(text1, text2) ==
    LET words1 == SeqToSet(Split(normalize_text_for_comparison(text1)))
        words2 == SeqToSet(Split(normalize_text_for_comparison(text2)))
    IN  IF words1 = {} \/ words2 = {} THEN <<0, 1>>
        ELSE <<Cardinality(words1 \cap words2), Cardinality(words1)>>

text_similarity(text1, text2) ==
    Jaccard(SeqToSet(Split(normalize_text_for_comparison(text1))),
            SeqToSet(Split(normalize_text_for_comparison(text2))))

(***************************************************************************)
(* Ratios and rounding                                                     *)
(***************************************************************************)
Abs(x) == IF x < 0 THEN -x ELSE x

RatioLess(a, b) == a[1] * b[2] < b[1] * a[2]

RatioEq(a, b) == a[1] * b[2] = b[1] * a[2]

\* <<i, n, j, m>> for which abs(j / m - i / n) is the real number 0.3 but
\* evaluates to the double 0.30000000000000004, which is > 0.3
PenaltyRoundedAbove ==
    { <<1, 2, 4, 5>>, <<2, 4, 4, 5>>, <<3, 6, 4, 5>>,
      <<4, 5, 1, 2>>, <<4, 5, 2, 4>>, <<4, 5, 3, 6>> }

\* <<i, n, m, j1, j2, a, b>>, j1 < j2: references j1 and j2 have the same
\* similarity a / b to line i and the same real penalty, and the double
\* similarity * (1 - penalty * 0.5) of j2 is greater than that of j1
\* (abs(1/3 - 1/2) evaluates above abs(2/3 - 1/2))
AdjustedRoundedAbove ==
    { <<i2[1], i2[2], mj[1], mj[2], mj[3], ab[1], ab[2]>> :
        i2 \in { <<1, 2>>, <<2, 4>>, <<3, 6>> },
        mj \in { <<3, 1, 2>>, <<6, 2, 4>> },
        ab \in { <<1, 1>>, <<1, 2>> } }

\* <<i, n, j, m, a, b, r>>: similarity a / b adjusted for line i of n and
\* reference j of m lies, as a real number, midway between two hundredths,
\* and round(adjusted, 2) is r hundredths, not the even neighbour
RoundedAwayFromEven ==
    { <<1, 2, 1, 5, 1, 10, 9>>, <<1, 2, 2, 5, 1, 2, 47>>,
      <<1, 2, 3, 5, 1, 2, 47>>, <<1, 4, 1, 5, 1, 1, 97>>,
      <<1, 4, 2, 5, 1, 1, 93>>, <<2, 4, 1, 5, 1, 10, 9>>,
      <<2, 4, 2, 5, 1, 2, 47>>, <<2, 4, 3, 5, 1, 2, 47>>,
      <<3, 4, 3, 5, 1, 1, 93>>, <<3, 4, 4, 5, 1, 1, 97>>,
      <<1, 5, 1, 2, 1, 10, 9>>, <<2, 5, 1, 2, 1, 2, 47>>,
      <<3, 5, 1, 2, 1, 2, 47>>, <<1, 5, 1, 4, 1, 1, 97>>,
      <<1, 5, 2, 4, 1, 10, 9>>, <<2, 5, 1, 4, 1, 1, 93>>,
      <<2, 5, 2, 4, 1, 2, 47>>, <<3, 5, 2, 4, 1, 2, 47>>,
      <<3, 5, 3, 4, 1, 1, 93>>, <<4, 5, 3, 4, 1, 1, 97>>,
      <<1, 5, 3, 6, 1, 10, 9>>, <<2, 5, 3, 6, 1, 2, 47>>,
      <<3, 5, 3, 6, 1, 2, 47>>, <<3, 6, 1, 5, 1, 10, 9>>,
      <<3, 6, 2, 5, 1, 2, 47>>, <<3, 6, 3, 5, 1, 2, 47>> }

\* the nearest multiple of unit to the ratio r, the even multiple when r is
\* midway (round-half-even, which is what round() does on a value that the
\* double represents exactly)
RoundRatio(r, unit) ==
    LET den  == r[2] * unit
        low  == r[1] \div den
        rest == r[1] - low * den
    IN  IF 2 * rest > den THEN (low + 1) * unit
        ELSE IF 2 * rest < den THEN low * unit
        ELSE IF low % 2 = 0 THEN low * unit ELSE (low + 1) * unit

\* round(t, 2) of a time: t a ratio of milliseconds, the result a multiple
\* of 10 ms
RoundTime(t) == RoundRatio(t, 10)

(***************************************************************************)
(* align_manual_lyrics                                                     *)
(***************************************************************************)
\* the penalty with the expected position of the line counted from 1
position_penalty_from_one(i, n, j, m) == <<Abs(j * n - (i + 1) * m), m * n>>

\* abs(whisper_position - expected_position) for line i of n and reference
\* j of m (both 0-based), as a ratio
position_penalty(i, n, j, m) == <<Abs(j * n - i * m), m * n>>

\* position_penalty > 0.3
PenaltyAboveWindow(i, n, j, m) ==
    \/ RatioLess(<<3, 10>>, position_penalty(i, n, j, m))
    \/ <<i, n, j, m>> \in PenaltyRoundedAbove

\* similarity * (1 - position_penalty * 0.5)
adjusted_similarity(similarity, penalty) ==
    <<similarity[1] * (2 * penalty[2] - penalty[1]),
      similarity[2] * 2 * penalty[2]>>

\* adjusted_similarity > best_similarity, where best is the state of the
\* search: idx = -1 and adjusted = 0.0, or the reference idx found so far
\* with its similarity and adjusted similarity
AdjustedAboveBest(i, n, j, m, similarity, adjusted, best) ==
    \/ RatioLess(best.adjusted, adjusted)
    \/ /\ best.idx >= 0
       /\ RatioEq(best.adjusted, adjusted)
       /\ \E e \in AdjustedRoundedAbove :
            /\ <<e[1], e[2], e[3], e[4], e[5]>> = <<i, n, m, best.idx, j>>
            /\ RatioEq(similarity, <<e[6], e[7]>>)
            /\ RatioEq(best.similarity, <<e[6], e[7]>>)

\* lines 231-238: reference j, of the given similarity to the line, against
\* the best found so far
Consider(i, n, j, m, similarity, adjusted, best) ==
    IF AdjustedAboveBest(i, n, j, m, similarity, adjusted, best)
    THEN [idx |-> j, similarity |-> similarity, adjusted |-> adjusted]
    ELSE best

ConsiderSimilarity(i, n, j, m, similarity, best) ==
    Consider(i, n, j, m, similarity,
             adjusted_similarity(similarity, position_penalty(i, n, j, m)),
             best)

\* the search of lines 212-238 from reference j on: the best unused
\* reference within the position window
RECURSIVE FindBestFrom(_, _, _, _, _, _, _)
FindBestFrom(line, i, n, whisper_segments, used, j, best) ==
    IF j >= Len(whisper_segments) THEN best
    ELSE IF j \in used \/ PenaltyAboveWindow(i, n, j, Len(whisper_segments))
    THEN FindBestFrom(line, i, n, whisper_segments, used, j + 1, best)
    ELSE FindBestFrom(line, i, n, whisper_segments, used, j + 1,
            ConsiderSimilarity(i, n, j, Len(whisper_segments),
                text_similarity(line, whisper_segments[j + 1].text), best))

FindBest(line, i, n, whisper_segments, used) ==
    FindBestFrom(line, i, n, whisper_segments, used, 0,
                 [idx |-> -1, similarity |-> <<0, 1>>, adjusted |-> <<0, 1>>])

\* round(best_similarity, 2), in hundredths
RoundSimilarity(i, n, m, best) ==
    LET away == { e \in RoundedAwayFromEven :
                    /\ <<e[1], e[2], e[3], e[4]>> = <<i, n, best.idx, m>>
                    /\ RatioEq(best.similarity, <<e[5], e[6]>>) }
    IN  IF away # {} THEN (CHOOSE e \in away : TRUE)[7]
        ELSE RoundRatio(<<100 * best.adjusted[1], best.adjusted[2]>>, 1)

\* the acceptance test with the threshold itself accepted
GoodMatchAtThreshold(best) ==
    best.idx >= 0 /\ ~RatioLess(best.adjusted, <<1, 10>>)

\* best_match_idx >= 0 and best_similarity > 0.1
GoodMatch(best) == best.idx >= 0 /\ RatioLess(<<1, 10>>, best.adjusted)

\* the interpolation starting after the segment that ends last
EmitForAfterLatestEnd(best, line, i, n, whisper_segments, segments) ==
    IF GoodMatch(best)
    THEN LET wseg == whisper_segments[best.idx + 1]
         IN  [start |-> wseg.start, end |-> wseg.end, text |-> line,
              matched |-> TRUE,
              similarity |->
                  RoundSimilarity(i, n, Len(whisper_segments), best),
              line |-> i, ref |-> best.idx]
    ELSE LET last_end == CHOOSE e \in { segments[k].end :
                                            k \in 1..Len(segments) } :
                             \A k \in 1..Len(segments) :
                                 segments[k].end <= e
             start == IF segments # <<>>
                      THEN last_end + 500
                      ELSE IF whisper_segments # <<>>
                           THEN whisper_segments[1].start ELSE 5000
             avg_duration == 3000
         IN  [start |-> RoundTime(<<start, 1>>),
              end |-> RoundTime(<<start + avg_duration, 1>>),
              text |-> line, matched |-> FALSE, similarity |-> 0,
              line |-> i, ref |-> -1]

\* the emission with a matched segment given the average duration instead
\* of the end of its reference
EmitForFixedDuration(best, line, i, n, whisper_segments, segments) ==
    IF GoodMatch(best)
    THEN LET wseg == whisper_segments[best.idx + 1]
         IN  [start |-> wseg.start, end |-> wseg.start + 3000, text |-> line,
              matched |-> TRUE,
              similarity |->
                  RoundSimilarity(i, n, Len(whisper_segments), best),
              line |-> i, ref |-> best.idx]
    ELSE LET start == IF segments # <<>>
                      THEN segments[Len(segments)].end + 500
                      ELSE IF whisper_segments # <<>>
                           THEN whisper_segments[1].start ELSE 5000
         IN  [start |-> RoundTime(<<start, 1>>),
              end |-> RoundTime(<<start + 3000, 1>>),
              text |-> line, matched |-> FALSE, similarity |-> 0,
              line |-> i, ref |-> -1]

\* the segment appended for line i (lines 240-271), best being the result
\* of the search.  The fields line and ref are bookkeeping of the model: the
\* index of the line the segment was emitted for and of the reference it
\* consumed (-1 when interpolated).
EmitFor(best, line, i, n, whisper_segments, segments) ==
    IF GoodMatch(best)
    THEN LET wseg == whisper_segments[best.idx + 1]
         IN  [start |-> wseg.start, end |-> wseg.end, text |-> line,
              matched |-> TRUE,
              similarity |->
                  RoundSimilarity(i, n, Len(whisper_segments), best),
              line |-> i, ref |-> best.idx]
    ELSE LET start == IF segments # <<>>
                      THEN segments[Len(segments)].end + 500
                      ELSE IF whisper_segments # <<>>
                           THEN whisper_segments[1].start ELSE 5000
             avg_duration == 3000
         IN  [start |-> RoundTime(<<start, 1>>),
              end |-> RoundTime(<<start + avg_duration, 1>>),
              text |-> line, matched |-> FALSE, similarity |-> 0,
              line |-> i, ref |-> -1]

\* one iteration of the loop of lines 211-271
EmitSegment(line, i, n, whisper_segments, segments, used) ==
    EmitFor(FindBest(line, i, n, whisper_segments, used),
            line, i, n, whisper_segments, segments)

\* the bookkeeping of used references left empty
UsedIndicesForgotten(segments) == {}

\* used_whisper_indices after the first Len(segments) lines
UsedIndices(segments) ==
    { segments[k].ref : k \in 1..Len(segments) } \ {-1}

\* the loop of lines 211-271 from line i on
RECURSIVE MatchLinesFrom(_, _, _, _)
MatchLinesFrom(lines, whisper_segments, i, segments) ==
    IF i >= Len(lines) THEN segments
    ELSE MatchLinesFrom(lines, whisper_segments, i + 1,
            Append(segments,
                   EmitSegment(lines[i + 1], i, Len(lines), whisper_segments,
                               segments, UsedIndices(segments))))

\* list.sort(key=lambda x: x['start']): a stable sort
RECURSIVE InsertByStart(_, _)
InsertByStart(sorted, seg) ==
    IF sorted = <<>> THEN <<seg>>
    ELSE IF sorted[Len(sorted)].start <= seg.start THEN Append(sorted, seg)
    ELSE Append(InsertByStart(SubSeq(sorted, 1, Len(sorted) - 1), seg),
                sorted[Len(sorted)])

RECURSIVE SortByStartFrom(_, _, _)
SortByStartFrom(segments, k, sorted) ==
    IF k > Len(segments) THEN sorted
    ELSE SortByStartFrom(segments, k + 1, InsertByStart(sorted, segments[k]))

SortByStart(segments) == SortByStartFrom(segments, 1, <<>>)

\* the repair pass leaving an overlapping segment where it is
FixOverlapSkipped(segments, k) == segments

\* one iteration of the loop of lines 277-281, on the 1-based position k
FixOverlap(segments, k) ==
    IF segments[k].start < segments[k - 1].end
    THEN LET start == segments[k - 1].end + 100
             end   == IF segments[k].end <= start
                      THEN start + 2000 ELSE segments[k].end
         IN  [segments EXCEPT ![k].start = start, ![k].end = end]
    ELSE segments

RECURSIVE FixOverlapsFrom(_, _)
FixOverlapsFrom(segments, k) ==
    IF k > Len(segments) THEN segments
    ELSE FixOverlapsFrom(FixOverlap(segments, k), k + 1)

FixOverlaps(segments) == FixOverlapsFrom(segments, 2)

\* the even distribution over end_time instead of end_time - start_time
DistributeEvenlyOverEndTime(lines, duration) ==
    LET start_time == 10
        end_time   == IF duration - 20 > start_time + 30
                      THEN duration - 20 ELSE start_time + 30
        total_time == end_time
        n          == Len(lines)
        start(i)   == <<1000 * (start_time * n + i * total_time), n>>
        end(i)     == <<1000 * (start_time * n + (i + 1) * total_time)
                            - 500 * n, n>>
    IN  [k \in 1..n |->
            [start |-> RoundTime(start(k - 1)), end |-> RoundTime(end(k - 1)),
             text |-> lines[k], matched |-> FALSE,
             line |-> k - 1, ref |-> -1]]

\* the branch of lines 287-305: no reference, spread the lines evenly
DistributeEvenly(lines, duration) ==
    LET start_time == 10
        end_time   == IF duration - 20 > start_time + 30
                      THEN duration - 20 ELSE start_time + 30
        total_time == end_time - start_time
        n          == Len(lines)
        \* start_time + i * time_per_line, in milliseconds
        start(i)   == <<1000 * (start_time * n + i * total_time), n>>
        \* start + time_per_line - 0.5
        end(i)     == <<1000 * (start_time * n + (i + 1) * total_time)
                            - 500 * n, n>>
    IN  [k \in 1..n |->
            [start |-> RoundTime(start(k - 1)), end |-> RoundTime(end(k - 1)),
             text |-> lines[k], matched |-> FALSE,
             line |-> k - 1, ref |-> -1]]

\* line 199: the stripped non-blank lines of the pasted text
NonBlank(line) == Strip(line) # <<>>

StripAll(lines) == [k \in 1..Len(lines) |-> Strip(lines[k])]

\* the lines of the pasted text with the blank ones kept
ManualLinesKeepingBlank(manual_lyrics) ==
    StripAll(SplitLines(Strip(manual_lyrics)))

ManualLines(manual_lyrics) ==
    StripAll(SelectSeq(SplitLines(Strip(manual_lyrics)), NonBlank))

\* align_manual_lyrics with the bookkeeping fields line and ref
AlignTraced(manual_lyrics, whisper_segments, duration) ==
    LET lines == ManualLines(manual_lyrics)
    IN  IF lines = <<>> THEN <<>>
        ELSE IF whisper_segments # <<>> /\ Len(whisper_segments) > 0
        THEN FixOverlaps(SortByStart(
                 MatchLinesFrom(lines, whisper_segments, 0, <<>>)))
        ELSE DistributeEvenly(lines, duration)

\* the returned segment: the traced one without the bookkeeping fields
Returned(seg) ==
    IF "similarity" \in DOMAIN seg
    THEN [start |-> seg.start, end |-> seg.end, text |-> seg.text,
          matched |-> seg.matched, similarity |-> seg.similarity]
    ELSE [start |-> seg.start, end |-> seg.end, text |-> seg.text,
          matched |-> seg.matched]

align_manual_lyrics(manual_lyrics, whisper_segments, duration) ==
    LET traced == AlignTraced(manual_lyrics, whisper_segments, duration)
    IN  [k \in 1..Len(traced) |-> Returned(traced[k])]

(***************************************************************************)
(* analyze_lyrics_structure                                                *)
(***************************************************************************)
\* the chorus lines counted from three occurrences on
ChorusLinesFromThree(segments) ==
    LET normalized(k) == normalize_text_for_comparison(segments[k].text)
        counted == { k \in 1..Len(segments) : Len(normalized(k)) >= 5 }
    IN  { normalized(k) : k \in
            { c \in counted :
                Cardinality({ o \in counted : normalized(o) = normalized(c) })
                    >= 3 } }

\* the chorus lines with the short lines counted as well
ChorusLinesCountingShort(segments) ==
    LET normalized(k) == normalize_text_for_comparison(segments[k].text)
        counted == 1..Len(segments)
    IN  { normalized(k) : k \in
            { c \in counted :
                Cardinality({ o \in counted : normalized(o) = normalized(c) })
                    >= 2 } }

\* Step 1 (lines 360-372): the normalized texts of at least 5 characters
\* that occur in two or more segments
ChorusLines(segments) ==
    LET normalized(k) == normalize_text_for_comparison(segments[k].text)
        counted == { k \in 1..Len(segments) : Len(normalized(k)) >= 5 }
    IN  { normalized(k) : k \in
            { c \in counted :
                Cardinality({ o \in counted : normalized(o) = normalized(c) })
                    >= 2 } }

\* lines 386-389
SectionType(text_normalized, chorus_lines) ==
    IF text_normalized \in chorus_lines THEN "chorus" ELSE "verse"

\* the test for a new section with a gap of 4 seconds splitting as well
StartNewSectionAtFour(segments, i, current, section_type) ==
    IF current = <<>> THEN TRUE
    ELSE IF current[1].type # section_type THEN TRUE
    ELSE IF i > 0
         THEN segments[i + 1].start - segments[i].end >= 4000
         ELSE FALSE

\* lines 392-403; i is the 0-based index of the segment, current the open
\* section as a sequence of one element, or <<>> for None
StartNewSection(segments, i, current, section_type) ==
    IF current = <<>> THEN TRUE
    ELSE IF current[1].type # section_type THEN TRUE
    ELSE IF i > 0
         THEN segments[i + 1].start - segments[i].end > 4000
         ELSE FALSE

\* f'VERSE {verse_count}'
VerseLabel(verse_count) == "VERSE " \o ToString(verse_count)

\* the same label for every chorus
ChorusLabelPlain(chorus_count) == "CHORUS"

\* 'CHORUS' if chorus_count == 1 else 'CHORUS (repeat)'
ChorusLabel(chorus_count) ==
    IF chorus_count = 1 THEN "CHORUS" ELSE "CHORUS (repeat)"

\* the iteration with the line appended only to a section that stays open
GroupSegmentOnlyOnContinue(segments, chorus_lines, i, st) ==
    LET seg             == segments[i + 1]
        text_normalized == normalize_text_for_comparison(seg.text)
        section_type    == SectionType(text_normalized, chorus_lines)
        new             == StartNewSection(segments, i, st.current, section_type)
        closed          == IF new /\ st.current # <<>>
                           THEN Append(st.sections,
                                       st.current[1] @@ [end |-> segments[i].end])
                           ELSE st.sections
        verse_count     == IF new /\ section_type = "verse"
                           THEN st.verse_count + 1 ELSE st.verse_count
        chorus_count    == IF new /\ section_type # "verse"
                           THEN st.chorus_count + 1 ELSE st.chorus_count
        opened          == IF new
                           THEN [type |-> section_type,
                                 label |-> IF section_type = "verse"
                                           THEN VerseLabel(verse_count)
                                           ELSE ChorusLabel(chorus_count),
                                 start |-> seg.start,
                                 lines |-> <<>>, line_texts |-> <<>>]
                           ELSE st.current[1]
    IN  [sections     |-> closed,
         current      |-> IF new THEN <<opened>>
                          ELSE << [opened EXCEPT
                                !.lines = Append(@, seg.text),
                                !.line_texts = Append(@, text_normalized)] >>,
         verse_count  |-> verse_count,
         chorus_count |-> chorus_count]

\* one iteration of the loop of lines 382-429 on the state
\* [sections, current, verse_count, chorus_count]
GroupSegment(segments, chorus_lines, i, st) ==
    LET seg             == segments[i + 1]
        text_normalized == normalize_text_for_comparison(seg.text)
        section_type    == SectionType(text_normalized, chorus_lines)
        new             == StartNewSection(segments, i, st.current, section_type)
        closed          == IF new /\ st.current # <<>>
                           THEN Append(st.sections,
                                       st.current[1] @@ [end |-> segments[i].end])
                           ELSE st.sections
        verse_count     == IF new /\ section_type = "verse"
                           THEN st.verse_count + 1 ELSE st.verse_count
        chorus_count    == IF new /\ section_type # "verse"
                           THEN st.chorus_count + 1 ELSE st.chorus_count
        opened          == IF new
                           THEN [type |-> section_type,
                                 label |-> IF section_type = "verse"
                                           THEN VerseLabel(verse_count)
                                           ELSE ChorusLabel(chorus_count),
                                 start |-> seg.start,
                                 lines |-> <<>>, line_texts |-> <<>>]
                           ELSE st.current[1]
    IN  [sections     |-> closed,
         current      |-> << [opened EXCEPT
                                !.lines = Append(@, seg.text),
                                !.line_texts = Append(@, text_normalized)] >>,
         verse_count  |-> verse_count,
         chorus_count |-> chorus_count]

RECURSIVE GroupFrom(_, _, _, _)
GroupFrom(segments, chorus_lines, i, st) ==
    IF i >= Len(segments) THEN st
    ELSE GroupFrom(segments, chorus_lines, i + 1,
                   GroupSegment(segments, chorus_lines, i, st))

\* the last section closed with the end of the first segment
GroupSectionsClosedAtFirst(segments) ==
    LET st == GroupFrom(segments, ChorusLines(segments), 0,
                        [sections |-> <<>>, current |-> <<>>,
                         verse_count |-> 0, chorus_count |-> 0])
    IN  IF st.current # <<>>
        THEN Append(st.sections,
                    st.current[1] @@ [end |-> segments[1].end])
        ELSE st.sections

\* Step 2 (lines 376-434)
GroupSections(segments) ==
    LET st == GroupFrom(segments, ChorusLines(segments), 0,
                        [sections |-> <<>>, current |-> <<>>,
                         verse_count |-> 0, chorus_count |-> 0])
    IN  IF st.current # <<>>
        THEN Append(st.sections,
                    st.current[1] @@ [end |-> segments[Len(segments)].end])
        ELSE st.sections

\* seq[:k]
Prefix(seq, k) == SubSeq(seq, 1, IF Len(seq) < k THEN Len(seq) ELSE k)

\* ' '.join(section['line_texts'][:k])
Content(section, k) == Join(Prefix(section.line_texts, k), <<" ">>)

\* the pre-chorus test met by a section of four lines as well
PreChorusUpToFour(sections, p) ==
    IF /\ sections[p].type = "verse"
       /\ Len(sections[p].lines) <= 4
       /\ p - 1 < Len(sections) - 1
       /\ sections[p + 1].type = "chorus"
    THEN [sections EXCEPT ![p].type = "pre-chorus", ![p].label = "PRE-CHORUS"]
    ELSE sections

\* lines 441-447, on the 1-based position p
PreChorus(sections, p) ==
    IF /\ sections[p].type = "verse"
       /\ Len(sections[p].lines) <= 3
       /\ p - 1 < Len(sections) - 1
       /\ sections[p + 1].type = "chorus"
    THEN [sections EXCEPT ![p].type = "pre-chorus", ![p].label = "PRE-CHORUS"]
    ELSE sections

\* the uniqueness test failed by a similarity of exactly 0.5 as well
IsUniqueBelowHalf(sections, p) ==
    \A o \in 1..Len(sections) :
        o # p =>
          RatioLess(text_similarity(Content(sections[p], 3),
                                    Content(sections[o], 3)), <<1, 2>>)

\* lines 452-459
IsUnique(sections, p) ==
    \A o \in 1..Len(sections) :
        o # p =>
          ~RatioLess(<<1, 2>>, text_similarity(Content(sections[p], 3),
                                               Content(sections[o], 3)))

\* lines 450-462; section['start'] > duration * 0.6
Bridge(sections, p, duration) ==
    IF /\ sections[p].type = "verse"
       /\ sections[p].start > 600 * duration
       /\ IsUnique(sections, p)
       /\ Len(sections[p].lines) <= 4
    THEN [sections EXCEPT ![p].type = "bridge", ![p].label = "BRIDGE"]
    ELSE sections

RECURSIVE SpecialFrom(_, _, _)
SpecialFrom(sections, p, duration) ==
    IF p > Len(sections) THEN sections
    ELSE SpecialFrom(Bridge(PreChorus(sections, p), p, duration),
                     p + 1, duration)

\* the intro relabelling without the test that the type is verse
IntroOfAnyType(sections) ==
    IF /\ sections # <<>>
       /\ sections[1].start < 15000
       /\ Len(sections[1].lines) <= 4
    THEN [sections EXCEPT ![1].type = "intro", ![1].label = "INTRO"]
    ELSE sections

\* lines 466-469
Intro(sections) ==
    IF /\ sections # <<>>
       /\ sections[1].start < 15000
       /\ Len(sections[1].lines) <= 4
       /\ sections[1].type = "verse"
    THEN [sections EXCEPT ![1].type = "intro", ![1].label = "INTRO"]
    ELSE sections

\* the outro test met by an end of exactly duration - 20 as well
OutroAtThreshold(sections, duration) ==
    LET last == Len(sections)
    IN  IF /\ sections # <<>>
           /\ sections[last].end >= 1000 * (duration - 20)
           /\ sections[last].type \notin {"chorus"}
        THEN [sections EXCEPT ![last].type = "outro", ![last].label = "OUTRO"]
        ELSE sections

\* lines 471-474
Outro(sections, duration) ==
    LET last == Len(sections)
    IN  IF /\ sections # <<>>
           /\ sections[last].end > 1000 * (duration - 20)
           /\ sections[last].type \notin {"chorus"}
        THEN [sections EXCEPT ![last].type = "outro", ![last].label = "OUTRO"]
        ELSE sections

\* Step 3 (lines 436-474)
DetectSpecial(sections, duration) ==
    Outro(Intro(SpecialFrom(sections, 1, duration)), duration)

\* the repeat tracking with a key of the first three lines
TrackSectionByThree(i, st) ==
    LET content_key == Content(st.sections[i + 1], 3)
    IN  IF content_key \in DOMAIN st.section_content_map
        THEN LET original_idx == st.section_content_map[content_key]
                 before == IF original_idx \in DOMAIN st.repeated_sections
                           THEN st.repeated_sections[original_idx]
                           ELSE <<>>
             IN  [sections |->
                      [st.sections EXCEPT
                          ![i + 1] = [repeat_of |-> original_idx] @@ @],
                  repeated_sections |->
                      (original_idx :> Append(before, i))
                          @@ st.repeated_sections,
                  section_content_map |-> st.section_content_map]
        ELSE [st EXCEPT !.section_content_map = (content_key :> i) @@ @]

\* the repeat tracking with the list of repeats overwritten, not extended
TrackSectionLastOnly(i, st) ==
    LET content_key == Content(st.sections[i + 1], 4)
    IN  IF content_key \in DOMAIN st.section_content_map
        THEN LET original_idx == st.section_content_map[content_key]
             IN  [sections |->
                      [st.sections EXCEPT
                          ![i + 1] = [repeat_of |-> original_idx] @@ @],
                  repeated_sections |->
                      (original_idx :> <<i>>) @@ st.repeated_sections,
                  section_content_map |-> st.section_content_map]
        ELSE [st EXCEPT !.section_content_map = (content_key :> i) @@ @]

\* one iteration of the loop of lines 480-489 on the state
\* [sections, repeated_sections, section_content_map]; i is 0-based
TrackSection(i, st) ==
    LET content_key == Content(st.sections[i + 1], 4)
    IN  IF content_key \in DOMAIN st.section_content_map
        THEN LET original_idx == st.section_content_map[content_key]
                 before == IF original_idx \in DOMAIN st.repeated_sections
                           THEN st.repeated_sections[original_idx]
                           ELSE <<>>
             IN  [sections |->
                      [st.sections EXCEPT
                          ![i + 1] = [repeat_of |-> original_idx] @@ @],
                  repeated_sections |->
                      (original_idx :> Append(before, i))
                          @@ st.repeated_sections,
                  section_content_map |-> st.section_content_map]
        ELSE [st EXCEPT !.section_content_map = (content_key :> i) @@ @]

RECURSIVE TrackFrom(_, _)
TrackFrom(i, st) ==
    IF i >= Len(st.sections) THEN st
    ELSE TrackFrom(i + 1, TrackSection(i, st))

\* Step 4 (lines 476-489)
TrackRepeats(sections) ==
    TrackFrom(0, [sections |-> sections, repeated_sections |-> <<>>,
                  section_content_map |-> <<>>])

\* the energy table without the outro branch
EnergyWithoutOutro(type) ==
    CASE type = "chorus"     -> 90
      [] type = "pre-chorus" -> 70
      [] type = "bridge"     -> 75
      [] type = "intro"      -> 40
      [] OTHER               -> 50

\* lines 494-505, in hundredths
Energy(type) ==
    CASE type = "chorus"     -> 90
      [] type = "pre-chorus" -> 70
      [] type = "bridge"     -> 75
      [] type = "intro"      -> 40
      [] type = "outro"      -> 30
      [] OTHER               -> 50

\* Step 5 (lines 491-513)
EnergyMap(sections) ==
    [p \in 1..Len(sections) |->
        [start |-> sections[p].start, end |-> sections[p].end,
         energy |-> Energy(sections[p].type), type |-> sections[p].type,
         label |-> sections[p].label]]

\* the early return without the repeated_sections entry
analyze_lyrics_structure_short_return(segments, duration) ==
    IF segments = <<>>
    THEN [sections |-> <<>>, energy_map |-> <<>>]
    ELSE LET tracked == TrackRepeats(
                            DetectSpecial(GroupSections(segments), duration))
         IN  [sections |-> tracked.sections,
              energy_map |-> EnergyMap(tracked.sections),
              repeated_sections |-> tracked.repeated_sections]

analyze_lyrics_structure(segments, duration) ==
    IF segments = <<>>
    THEN [sections |-> <<>>, energy_map |-> <<>>, repeated_sections |-> <<>>]
    ELSE LET tracked == TrackRepeats(
                            DetectSpecial(GroupSections(segments), duration))
         IN  [sections |-> tracked.sections,
              energy_map |-> EnergyMap(tracked.sections),
              repeated_sections |-> tracked.repeated_sections]

(***************************************************************************)
(* Inputs                                                                  *)
(*                                                                         *)
(* Times in the inputs are chosen so that the decimal arithmetic of the    *)
(* model and the double arithmetic of the code give the same comparisons   *)
(* and the same round(x, 2).                                               *)
(***************************************************************************)
TextA == <<"a">>

TextB == <<"b">>

TextShout == <<" ", "A", "!">>

TextBlank == <<" ">>

TextAB == <<"a", " ", "b">>

TextTen ==
    <<"a", " ", "c", " ", "d", " ", "e", " ", "f", " ",
      "g", " ", "h", " ", "i", " ", "j", " ", "k">>

\* the lines a user may paste: one that normalizes to "a", one that is
\* "b", one that is blank
RawLines == {TextShout, TextB, TextBlank}

\* the texts of the transcription
RefTexts == {TextA, TextAB, TextTen}

MaxLines == 3

MaxRefs == 3

MaxWideRefs == 5

MaxLongLines == 61

\* the time span of reference j (0-based) on each time line: apart and with
\* millisecond precision, overlapping, backward, and with end < start
Timelines == {"apart", "overlapping", "backward", "inverted"}

Span(timeline, j) ==
    CASE timeline = "apart"       -> <<3000 * j + 1234, 3000 * j + 2346>>
      [] timeline = "overlapping" -> <<2000 * j, 2000 * j + 3000>>
      [] timeline = "backward"    -> <<30000 - 3000 * j, 31000 - 3000 * j>>
      [] timeline = "inverted"    -> <<3000 * j + 2000, 3000 * j + 1500>>

Transcription(timeline, texts) ==
    [k \in 1..Len(texts) |->
        [start |-> Span(timeline, k - 1)[1], end |-> Span(timeline, k - 1)[2],
         text |-> texts[k]]]

SeqsUpTo(S, n) == UNION { [1..k -> S] : k \in 0..n }

\* the pasted text: the raw lines separated by newlines
Pasted(raw) == Join(raw, <<"\n">>)

\* a few lines against a few references, every text and every time line
ShortInputs ==
    { [manual_lyrics |-> Pasted(raw),
       whisper_segments |-> Transcription(tl, texts),
       duration |-> 20] :
        raw \in SeqsUpTo(RawLines, MaxLines),
        tl \in Timelines,
        texts \in SeqsUpTo(RefTexts, MaxRefs) \ {<<>>} }

\* a few lines and no reference
BareInputs ==
    { [manual_lyrics |-> Pasted(raw), whisper_segments |-> <<>>,
       duration |-> d] :
        raw \in SeqsUpTo(RawLines, MaxLines), d \in {20, 100} }

\* two lines against three or more references, where the position
\* penalties 1/2 - 1/3 and 0.3 occur
WideInputs ==
    { [manual_lyrics |-> Pasted(raw),
       whisper_segments |-> Transcription("apart", texts),
       duration |-> 20] :
        raw \in [1..2 -> {TextA, TextB}],
        texts \in UNION { [1..m -> {TextA, TextAB}] : m \in 3..MaxWideRefs } }

\* many lines and no reference
LongInputs ==
    { [manual_lyrics |->
           [k \in 1..(2 * n - 1) |-> IF k % 2 = 1 THEN "a" ELSE "\n"],
       whisper_segments |-> <<>>,
       duration |-> d] :
        n \in 1..MaxLongLines, d \in {20, 70} }

TextC == <<"c">>

TextX == <<"x">>

TextY == <<"y">>

\* lines a, b, c against the references (0,2,'a'), (5,7,'b'), (10,12,'c')
\* in a song of 20 seconds
MatchingScenario ==
    [manual_lyrics |-> Pasted(<<TextA, TextB, TextC>>),
     whisper_segments |->
         << [start |-> 0, end |-> 2000, text |-> TextA],
            [start |-> 5000, end |-> 7000, text |-> TextB],
            [start |-> 10000, end |-> 12000, text |-> TextC] >>,
     duration |-> 20]

\* lines x, y without references in a song of 100 seconds
EvenScenario ==
    [manual_lyrics |-> Pasted(<<TextX, TextY>>), whisper_segments |-> <<>>,
     duration |-> 100]

ScenarioInputs == {MatchingScenario, EvenScenario}

AlignInputs ==
    ShortInputs \cup BareInputs \cup WideInputs \cup LongInputs
        \cup ScenarioInputs

(***************************************************************************)
(* State                                                                   *)
(***************************************************************************)
VARIABLES
    pc,                 \* "align" or "analyze": the call to make; then "done"
    manual_lyrics,      \* arguments of align_manual_lyrics
    whisper_segments,
    duration,           \* argument of both functions, in seconds
    aligned,            \* value returned by align_manual_lyrics
    origin,             \* for each returned segment, the line it was emitted
                        \* for and the reference it consumed (bookkeeping)
    segments,           \* argument of analyze_lyrics_structure
    structure,          \* value returned by analyze_lyrics_structure
    heap,               \* the dict objects two running calls can both reach,
                        \* by identity (position in the sequence)
    align_call,         \* locals of a running align_manual_lyrics
    analyze_call,       \* locals of a running analyze_lyrics_structure
    lyrics_rows,        \* the rows of table lyrics, by video_id
    db_call,            \* the last storage call: its arguments and result
    songs,              \* the video_id of the rows of table songs
    routines,           \* the rows of table routines, by routine_id
    sqlite_sequence,    \* the largest routine_id given out so far
    text_call           \* the last call of a text function: its arguments
                        \* and result

call_vars == <<heap, align_call, analyze_call>>

routine_vars == <<songs, routines, sqlite_sequence>>

db_vars == <<lyrics_rows, db_call, songs, routines, sqlite_sequence>>

vars == <<pc, manual_lyrics, whisper_segments, duration, aligned, origin,
          segments, structure, heap, align_call, analyze_call,
          lyrics_rows, db_call, songs, routines, sqlite_sequence,
          text_call>>

Idle == [pc |-> "idle"]

\* no call is running step by step
NoCalls == heap = <<>> /\ align_call = Idle /\ analyze_call = Idle

\* the storage is not in use: no rows, no call made
NoStorage ==
    /\ lyrics_rows = <<>>
    /\ db_call = [op |-> "none"]
    /\ songs = {}
    /\ routines = <<>>
    /\ sqlite_sequence = 0

NoStructure ==
    [sections |-> <<>>, energy_map |-> <<>>, repeated_sections |-> <<>>]

\* a call of align_manual_lyrics is about to be made
InitAlign ==
    /\ pc = "align"
    /\ \E in \in AlignInputs :
         /\ manual_lyrics = in.manual_lyrics
         /\ whisper_segments = in.whisper_segments
         /\ duration = in.duration
    /\ aligned = <<>>
    /\ origin = <<>>
    /\ segments = <<>>
    /\ structure = NoStructure
    /\ NoCalls
    /\ NoStorage
    /\ text_call = [op |-> "none"]

Align ==
    /\ pc = "align"
    /\ \E traced \in {AlignTraced(manual_lyrics, whisper_segments, duration)} :
         /\ aligned' = [k \in 1..Len(traced) |-> Returned(traced[k])]
         /\ origin' = [k \in 1..Len(traced) |->
                          [line |-> traced[k].line, ref |-> traced[k].ref]]
    /\ pc' = "done"
    /\ UNCHANGED <<manual_lyrics, whisper_segments, duration, segments,
                   structure, call_vars, db_vars, text_call>>

NextAlign == Align

Spec == InitAlign /\ [][NextAlign]_vars

(***************************************************************************)
(* Properties of align_manual_lyrics                                       *)
(***************************************************************************)
\* position (1-based) in the returned sequence of the segment of line i
PositionOf(i) == CHOOSE k \in DOMAIN origin : origin[k].line = i

\* the reference consumed by line i, -1 when the line was interpolated
RefOf(i) == origin[PositionOf(i)].ref

\* the reference segment behind the returned segment at position k
Consumed(k) == whisper_segments[origin[k].ref + 1]

\* the number of lines of the pasted text with a non-space character
NonBlankLineCount ==
    LET pieces == SplitLines(manual_lyrics)
    IN  Cardinality({ l \in DOMAIN pieces :
                        \E c \in DOMAIN pieces[l] : ~IsSpace(pieces[l][c]) })

\* C1: align_manual_lyrics returns exactly one segment per non-blank input
\* line, with references and without; with no non-blank line it returns
\* the empty sequence.
C1_OneSegmentPerLine ==
    pc = "done" => Len(aligned) = NonBlankLineCount

\* three pasted lines, the middle one blank, aligned against references
C1_Witness ==
    /\ pc = "done"
    /\ whisper_segments # <<>>
    /\ Len(SplitLines(manual_lyrics)) = 3
    /\ SplitLines(manual_lyrics)[2] = TextBlank
    /\ Len(aligned) = 2

\* C2: the returned sequence is sorted by start and no segment starts
\* before the end of the segment before it.
C2_SortedWithoutOverlap ==
    pc = "done" =>
        \A k \in 2..Len(aligned) :
            /\ aligned[k].start >= aligned[k - 1].start
            /\ aligned[k].start >= aligned[k - 1].end

\* the sort changed the order of emission and the repair moved a segment
C2_Witness ==
    /\ pc = "done"
    /\ \E k \in DOMAIN origin : origin[k].line # k - 1
    /\ \E k \in DOMAIN origin :
         /\ origin[k].ref >= 0
         /\ aligned[k].start # Consumed(k).start

\* C3 as claimed: every returned segment with matched = true has the start
\* and the end of the reference segment it consumed.
C3_MatchedKeepsReferenceTimes ==
    pc = "done" =>
        \A k \in DOMAIN aligned :
            aligned[k].matched =>
                /\ aligned[k].start = Consumed(k).start
                /\ aligned[k].end = Consumed(k).end

\* C3 as amended: a returned segment with matched = true has the start and
\* the end of the reference it consumed unless the overlap repair moved
\* it: when the reference starts before the end of the segment sorted
\* before it, its start is that end plus 0.1 and its end is the reference
\* end, or the new start plus 2.0 when the reference end is not later than
\* the new start.
C3_MatchedTimesUnlessRepaired ==
    pc = "done" =>
        \A k \in DOMAIN aligned :
            aligned[k].matched =>
                IF k > 1 /\ Consumed(k).start < aligned[k - 1].end
                THEN /\ aligned[k].start = aligned[k - 1].end + 100
                     /\ aligned[k].end =
                            IF Consumed(k).end <= aligned[k].start
                            THEN aligned[k].start + 2000
                            ELSE Consumed(k).end
                ELSE /\ aligned[k].start = Consumed(k).start
                     /\ aligned[k].end = Consumed(k).end

\* a matched segment whose start and end were both replaced by the repair
C3_Witness ==
    /\ pc = "done"
    /\ \E k \in DOMAIN aligned :
         /\ aligned[k].matched
         /\ aligned[k].start # Consumed(k).start
         /\ aligned[k].end # Consumed(k).end

\* the reference line i would take if no reference had been used
Preferred(lines, i) ==
    LET best == FindBest(lines[i + 1], i, Len(lines), whisper_segments, {})
    IN  IF GoodMatch(best) THEN best.idx ELSE -1

\* C4: each reference index is consumed by at most one line, and a
\* reference that is the best candidate of two lines goes to the earlier
\* line, the later line taking another reference or none.
C4_ReferenceConsumedOnce ==
    (pc = "done" /\ whisper_segments # <<>>) =>
        \A lines \in {ManualLines(manual_lyrics)} :
            /\ \A k1, k2 \in DOMAIN origin :
                 (k1 # k2 /\ origin[k1].ref >= 0) =>
                     origin[k1].ref # origin[k2].ref
            /\ \A i1, i2 \in 0..(Len(lines) - 1) :
                 \A j \in {Preferred(lines, i1)} :
                     ( /\ i1 < i2
                       /\ j >= 0
                       /\ j = Preferred(lines, i2)
                       /\ \A i0 \in 0..(i1 - 1) : RefOf(i0) # j )
                     => (RefOf(i1) = j /\ RefOf(i2) # j)

\* two lines prefer the same reference; the later one is matched to another
C4_Witness ==
    /\ pc = "done"
    /\ whisper_segments # <<>>
    /\ \E lines \in {ManualLines(manual_lyrics)} :
         \E i1, i2 \in 0..(Len(lines) - 1) :
            /\ i1 < i2
            /\ Preferred(lines, i1) >= 0
            /\ Preferred(lines, i1) = Preferred(lines, i2)
            /\ RefOf(i1) = Preferred(lines, i1)
            /\ RefOf(i2) >= 0
            /\ RefOf(i2) # RefOf(i1)

\* C5 as claimed: when every reference segment has end >= start, every
\* returned segment has end >= start, whatever the number of lines and the
\* duration, also when the lines are distributed evenly.
C5_EndNotBeforeStart ==
    ( /\ pc = "done"
      /\ \A j \in DOMAIN whisper_segments :
            whisper_segments[j].end >= whisper_segments[j].start )
    => \A k \in DOMAIN aligned : aligned[k].end >= aligned[k].start


\* C5 fails on sixty-one lines in a song of 20 seconds without references
C5_Refuted ==
    /\ pc = "done"
    /\ whisper_segments = <<>>
    /\ Len(aligned) = 61
    /\ duration = 20
    /\ aligned[1].start = 10000
    /\ aligned[1].end = 9990

\* similarity of line i (0-based) of lines to reference j (0-based)
SimilarityTo(lines, i, j) ==
    text_similarity(lines[i + 1], whisper_segments[j + 1].text)

\* similarity * (1 - 0.5 * position_penalty) of line i and reference j
AdjustedTo(lines, i, j) ==
    adjusted_similarity(SimilarityTo(lines, i, j),
        position_penalty(i, Len(lines), j, Len(whisper_segments)))

\* position_penalty <= 0.3 on the doubles the program computes: the ratio
\* is at most 3/10 and its quotients do not round to a value above 0.3
WithinWindow(lines, i, j) ==
    /\ 10 * Abs(j * Len(lines) - i * Len(whisper_segments))
           <= 3 * Len(whisper_segments) * Len(lines)
    /\ <<i, Len(lines), j, Len(whisper_segments)>> \notin PenaltyRoundedAbove

\* the references line i can consume: unused by the lines before it and
\* within the position window
Candidates(lines, i) ==
    { j \in 0..(Len(whisper_segments) - 1) :
        /\ \A i0 \in 0..(i - 1) : RefOf(i0) # j
        /\ WithinWindow(lines, i, j) }

\* the adjusted value of the later reference j2 is above that of the
\* earlier reference j1 on the doubles the program computes
LaterAbove(lines, i, j1, j2) ==
    \/ RatioLess(AdjustedTo(lines, i, j1), AdjustedTo(lines, i, j2))
    \/ /\ RatioEq(AdjustedTo(lines, i, j1), AdjustedTo(lines, i, j2))
       /\ \E e \in AdjustedRoundedAbove :
            /\ <<e[1], e[2], e[3], e[4], e[5]>>
                 = <<i, Len(lines), Len(whisper_segments), j1, j2>>
            /\ RatioEq(SimilarityTo(lines, i, j1), <<e[6], e[7]>>)
            /\ RatioEq(SimilarityTo(lines, i, j2), <<e[6], e[7]>>)

TextHello == <<"h", "e", "l", "l", "o", " ", "w", "o", "r", "l", "d">>

TextHelloLoud ==
    <<"H", "e", "l", "l", "o", ",", " ", "W", "o", "r", "l", "d", "!">>

TextNew ==
    <<"s", "o", "m", "e", "t", "h", "i", "n", "g", " ", "n", "e", "w">>

TextHelloOnly == <<"h", "e", "l", "l", "o">>

TextWorldOnly == <<"w", "o", "r", "l", "d">>

TextOh == <<"o", "h">>

\* the texts of the segments: a line, the same line in another case and
\* punctuation, another line, the two words of the first line apart, and a
\* line shorter than five characters
SongTexts ==
    {TextHello, TextHelloLoud, TextNew, TextHelloOnly, TextWorldOnly, TextOh}

MaxSegments == 3

\* the time spans of the segments, in seconds: gaps below the threshold of
\* 4, gaps of 0, 8, exactly 4 and 5, gaps of 5 throughout, spans after
\* 60 percent of a 100-second song, spans out of time order, and gaps of
\* exactly 4, 5, exactly 4 and 0 with an end at 5 = 25 - 20 and a start at
\* 15 = 0.6 * 25
SongTimelines ==
    {"scenario", "gapped", "sparse", "late", "disordered", "edge"}

SongSpans(timeline) ==
    CASE timeline = "scenario" ->
           <<<<0, 3>>, <<4, 7>>, <<10, 13>>, <<14, 17>>, <<18, 21>>>>
      [] timeline = "gapped" ->
           <<<<0, 1>>, <<1, 2>>, <<10, 12>>, <<16, 18>>, <<23, 25>>>>
      [] timeline = "sparse" ->
           <<<<0, 2>>, <<7, 9>>, <<14, 16>>, <<21, 23>>, <<28, 30>>>>
      [] timeline = "late" ->
           <<<<61, 63>>, <<64, 66>>, <<72, 74>>, <<75, 77>>, <<79, 80>>>>
      [] timeline = "disordered" ->
           <<<<10, 13>>, <<0, 3>>, <<20, 22>>, <<5, 6>>, <<30, 31>>>>
      [] timeline = "edge" ->
           <<<<0, 5>>, <<9, 10>>, <<15, 16>>, <<20, 21>>, <<21, 22>>>>

SongSegments(timeline, texts) ==
    [k \in 1..Len(texts) |->
        [start |-> 1000 * SongSpans(timeline)[k][1],
         end |-> 1000 * SongSpans(timeline)[k][2],
         text |-> texts[k]]]

SongDurations == {20, 25, 100}

\* a few segments, every text on every time line
ShortSongs ==
    { [segments |-> SongSegments(tl, texts), duration |-> d] :
        tl \in SongTimelines,
        texts \in SeqsUpTo(SongTexts, MaxSegments),
        d \in SongDurations }

MaxSectionLines == 5

\* two runs of a and b lines too short to count as chorus lines, one second
\* each, 5 seconds apart; the last line of each run is last1 and last2
TwoRuns(a, b, last1, last2) ==
    [k \in 1..(a + b) |->
        [start |-> 1000 * (IF k <= a THEN k - 1 ELSE k + 4),
         end   |-> 1000 * (IF k <= a THEN k ELSE k + 5),
         text  |-> IF k = a THEN last1
                   ELSE IF k = a + b THEN last2 ELSE TextOh]]

\* sections of up to MaxSectionLines lines
LongSongs ==
    { [segments |-> TwoRuns(a, b, last1, last2), duration |-> d] :
        a \in 1..MaxSectionLines, b \in 1..MaxSectionLines,
        last1 \in {TextOh, TextA}, last2 \in {TextOh, TextA},
        d \in SongDurations }

\* no segment at all, in songs of any duration
EmptySongs ==
    { [segments |-> <<>>, duration |-> d] : d \in {-1, 0, 20, 100, 1000} }

\* a run of n lines too short to count, one second each from second t0
\* on, followed at once by a line sung twice
LeadIn(n, t0) ==
    [k \in 1..(n + 2) |->
        [start |-> 1000 * (t0 + k - 1), end |-> 1000 * (t0 + k),
         text |-> IF k <= n THEN TextOh ELSE TextHello]]

\* a verse of up to MaxSectionLines lines before a chorus, starting at 0,
\* just before, at and just after second 15
LeadInSongs ==
    { [segments |-> LeadIn(n, t0), duration |-> d] :
        n \in 1..MaxSectionLines, t0 \in {0, 14, 15, 16},
        d \in SongDurations }

StructureInputs == ShortSongs \cup LongSongs \cup EmptySongs \cup LeadInSongs

\* a call of analyze_lyrics_structure is about to be made
InitStructure ==
    /\ pc = "analyze"
    /\ \E in \in StructureInputs :
         /\ segments = in.segments
         /\ duration = in.duration
    /\ manual_lyrics = <<>>
    /\ whisper_segments = <<>>
    /\ aligned = <<>>
    /\ origin = <<>>
    /\ structure = NoStructure
    /\ NoCalls
    /\ NoStorage
    /\ text_call = [op |-> "none"]

Analyze ==
    /\ pc = "analyze"
    /\ structure' = analyze_lyrics_structure(segments, duration)
    /\ pc' = "done"
    /\ UNCHANGED <<manual_lyrics, whisper_segments, duration, aligned, origin,
                   segments, call_vars, db_vars, text_call>>

NextStructure == Analyze

SpecStructure == InitStructure /\ [][NextStructure]_vars


(***************************************************************************)
(* Properties of analyze_lyrics_structure                                  *)
(***************************************************************************)
\* the scenario: (0,3,'hello world'), (4,7,'hello world'),
\* (10,13,'something new') in a song of 20 seconds
ScenarioCall ==
    /\ segments = << [start |-> 0, end |-> 3000, text |-> TextHello],
                     [start |-> 4000, end |-> 7000, text |-> TextHello],
                     [start |-> 10000, end |-> 13000, text |-> TextNew] >>
    /\ duration = 20

\* two sections, the first a chorus from 0 to 7 with two lines, the second
\* from 10 to 13, and no repeated section
ScenarioShape ==
    /\ Len(structure.sections) = 2
    /\ structure.sections[1].type = "chorus"
    /\ structure.sections[1].start = 0
    /\ structure.sections[1].end = 7000
    /\ Len(structure.sections[1].lines) = 2
    /\ structure.sections[2].start = 10000
    /\ structure.sections[2].end = 13000
    /\ structure.repeated_sections = <<>>

\* C7 as claimed: on the scenario the result has exactly two sections, a
\* chorus from 0 to 7 with two lines and a verse from 10 to 13, and
\* repeated_sections is empty.
C7_ScenarioEndsInVerse ==
    (pc = "done" /\ ScenarioCall) =>
        (ScenarioShape /\ structure.sections[2].type = "verse")

\* C7 as amended: on the scenario the result has exactly two sections, a
\* chorus from 0 to 7 with two lines and a section from 10 to 13 of type
\* outro with label OUTRO (its end 13 is later than duration - 20 = 0), and
\* repeated_sections is empty.
C7_ScenarioEndsInOutro ==
    (pc = "done" /\ ScenarioCall) =>
        /\ ScenarioShape
        /\ structure.sections[2].type = "outro"
        /\ structure.sections[2].label = "OUTRO"

\* the scenario has been analyzed
C7_Witness == pc = "done" /\ ScenarioCall /\ structure.sections # <<>>

\* every segment has end >= start
SegmentsWellFormed ==
    \A k \in DOMAIN segments : segments[k].end >= segments[k].start

\* the segments are in time order: no segment starts before the one before
SegmentsInTimeOrder ==
    \A k \in 2..Len(segments) : segments[k].start >= segments[k - 1].start

SectionsWellFormed ==
    \A p \in DOMAIN structure.sections :
        /\ structure.sections[p].end >= structure.sections[p].start
        /\ structure.sections[p].label # ""

\* C8 as claimed: for every non-empty input in which each segment has
\* end >= start, every section of the result has end >= start and a
\* non-empty label.
C8_SectionsWellFormed ==
    (pc = "done" /\ segments # <<>> /\ SegmentsWellFormed)
        => SectionsWellFormed

\* C8 as amended: for every non-empty input in which each segment has
\* end >= start and no segment starts before the segment before it, every
\* section of the result has end >= start and a non-empty label.
C8_SectionsWellFormedInTimeOrder ==
    (pc = "done" /\ segments # <<>> /\ SegmentsWellFormed
        /\ SegmentsInTimeOrder)
        => SectionsWellFormed

\* segments in time order grouped into two or more sections, one of them
\* with several lines
C8_Witness ==
    /\ pc = "done"
    /\ SegmentsWellFormed
    /\ SegmentsInTimeOrder
    /\ Len(structure.sections) >= 2
    /\ \E p \in DOMAIN structure.sections :
         Len(structure.sections[p].lines) >= 2

\* C9: energy_map has one entry per section, in section order, with the
\* start, end, type and label of the section as returned, and the energy
\* of the table chorus 0.9, pre-chorus 0.7, bridge 0.75, intro 0.4,
\* outro 0.3, verse 0.5 (in hundredths), which lies in [0, 1].
C9_EnergyMapFollowsSections ==
    pc = "done" =>
        /\ Len(structure.energy_map) = Len(structure.sections)
        /\ \A p \in DOMAIN structure.sections :
             \A section \in {structure.sections[p]} :
                \A entry \in {structure.energy_map[p]} :
                    /\ DOMAIN entry =
                         {"start", "end", "energy", "type", "label"}
                    /\ entry.start = section.start
                    /\ entry.end = section.end
                    /\ entry.type = section.type
                    /\ entry.label = section.label
                    /\ section.type \in {"chorus", "pre-chorus", "bridge",
                                         "intro", "outro", "verse"}
                    /\ section.type = "chorus" => entry.energy = 90
                    /\ section.type = "pre-chorus" => entry.energy = 70
                    /\ section.type = "bridge" => entry.energy = 75
                    /\ section.type = "intro" => entry.energy = 40
                    /\ section.type = "outro" => entry.energy = 30
                    /\ section.type = "verse" => entry.energy = 50
                    /\ entry.energy >= 0 /\ entry.energy <= 100

\* a result with three sections of three different types
C9_Witness ==
    /\ pc = "done"
    /\ Len(structure.energy_map) = 3
    /\ Cardinality({ structure.energy_map[p].type : p \in 1..3 }) = 3

\* the first four normalized lines of the section at 0-based index i
FirstFour(i) ==
    LET line_texts == structure.sections[i + 1].line_texts
    IN  [k \in 1..(IF Len(line_texts) < 4 THEN Len(line_texts) ELSE 4) |->
            line_texts[k]]

\* those lines joined by single spaces
KeyOf(i) == Join(FirstFour(i), <<" ">>)

\* the 0-based indices of the sections marked as repeats
Repeats ==
    { j \in 0..(Len(structure.sections) - 1) :
        "repeat_of" \in DOMAIN structure.sections[j + 1] }

\* C10 as claimed: if section j has repeat_of = i then i < j, sections i
\* and j have the same first four normalized lines line for line, and no
\* section before i has those first four normalized lines.
C10_RepeatHasSameLines ==
    pc = "done" =>
        \A j \in Repeats :
            \A i \in {structure.sections[j + 1].repeat_of} :
                /\ i < j
                /\ FirstFour(i) = FirstFour(j)
                /\ \A h \in 0..(i - 1) : FirstFour(h) # FirstFour(i)

\* C10 as amended: if section j has repeat_of = i then i < j, the first
\* four normalized lines of sections i and j joined by single spaces are
\* the same string, and no section before i has that string as the join of
\* its first four normalized lines.
C10_RepeatHasSameKey ==
    pc = "done" =>
        \A j \in Repeats :
            \A i \in {structure.sections[j + 1].repeat_of} :
                /\ i >= 0
                /\ i < j
                /\ KeyOf(i) = KeyOf(j)
                /\ \A h \in 0..(i - 1) : KeyOf(h) # KeyOf(i)

\* a section of five lines marked as the repeat of a section with the same
\* first four lines and another fifth line
C10_Witness ==
    /\ pc = "done"
    /\ \E j \in Repeats :
         \E i \in {structure.sections[j + 1].repeat_of} :
            /\ Len(structure.sections[j + 1].line_texts) = 5
            /\ Len(structure.sections[i + 1].line_texts) = 5
            /\ structure.sections[j + 1].line_texts
                 # structure.sections[i + 1].line_texts


\* C11: repeated_sections is the inverse of repeat_of: j is in
\* repeated_sections[i] exactly when sections[j].repeat_of = i; every list
\* is non-empty and strictly ascending with all elements greater than its
\* key; no key of repeated_sections has a repeat_of itself.
C11_RepeatedSectionsInverse ==
    pc = "done" =>
        \A rs \in {structure.repeated_sections} :
            \A n \in {Len(structure.sections)} :
                /\ DOMAIN rs \subseteq 0..(n - 1)
                /\ \A i, j \in 0..(n - 1) :
                     (i \in DOMAIN rs /\ \E k \in DOMAIN rs[i] : rs[i][k] = j)
                     <=> (j \in Repeats
                            /\ structure.sections[j + 1].repeat_of = i)
                /\ \A i \in DOMAIN rs :
                     /\ rs[i] # <<>>
                     /\ i \notin Repeats
                     /\ \A k \in DOMAIN rs[i] :
                          /\ rs[i][k] > i
                          /\ k > 1 => rs[i][k] > rs[i][k - 1]

\* a section repeated twice: a list of two repeats
C11_Witness ==
    /\ pc = "done"
    /\ \E i \in DOMAIN structure.repeated_sections :
         Len(structure.repeated_sections[i]) >= 2


\* C12: with an empty segment sequence analyze_lyrics_structure returns
\* sections = [], energy_map = [] and repeated_sections = {}, whatever the
\* duration.
C12_EmptyInEmptyOut ==
    (pc = "done" /\ segments = <<>>) =>
        /\ DOMAIN structure = {"sections", "energy_map", "repeated_sections"}
        /\ structure.sections = <<>>
        /\ structure.energy_map = <<>>
        /\ DOMAIN structure.repeated_sections = {}

\* the empty sequence analyzed in a song of no duration
C12_Witness ==
    pc = "done" /\ segments = <<>> /\ duration = 0 /\ structure.sections = <<>>


(***************************************************************************)
(* Further properties of align_manual_lyrics                               *)
(***************************************************************************)
\* the call of the matching scenario
MatchingScenarioCall ==
    /\ manual_lyrics = MatchingScenario.manual_lyrics
    /\ whisper_segments = MatchingScenario.whisper_segments
    /\ duration = MatchingScenario.duration

\* C13: lines a, b, c against the references (0,2,'a'), (5,7,'b'),
\* (10,12,'c') with duration 20 give three segments in the order of the
\* lines, each matched with similarity 1.0 and the start and end of the
\* reference of the same index.
C13_ScenarioMatchesInOrder ==
    (pc = "done" /\ MatchingScenarioCall) =>
        aligned =
            << [start |-> 0, end |-> 2000, text |-> TextA,
                matched |-> TRUE, similarity |-> 100],
               [start |-> 5000, end |-> 7000, text |-> TextB,
                matched |-> TRUE, similarity |-> 100],
               [start |-> 10000, end |-> 12000, text |-> TextC,
                matched |-> TRUE, similarity |-> 100] >>

\* the matching scenario has been aligned, every line to a reference
C13_Witness ==
    /\ pc = "done"
    /\ MatchingScenarioCall
    /\ Len(origin) = 3
    /\ \A k \in 1..3 : origin[k].ref >= 0

\* max(duration - 20, 40) - 10
EvenTotal == (IF duration - 20 > 40 THEN duration - 20 ELSE 40) - 10

\* 10 + i * t for line i (0-based) of n, in milliseconds, as a ratio
EvenStart(i, n) == <<1000 * (10 * n + i * EvenTotal), n>>

\* 10 + i * t + t - 0.5
EvenEnd(i, n) == <<1000 * (10 * n + (i + 1) * EvenTotal) - 500 * n, n>>

\* a result of the branch without references, one segment per line in the
\* order of the lines, none matched
EvenOrder(lines) ==
    /\ Len(aligned) = Len(lines)
    /\ \A k \in DOMAIN aligned :
         /\ aligned[k].text = lines[k]
         /\ aligned[k].matched = FALSE

\* the result on lines x, y with duration 100: (10, 44.5) and (45, 79.5)
EvenExample ==
    (manual_lyrics = EvenScenario.manual_lyrics /\ duration = 100) =>
        /\ Len(aligned) = 2
        /\ aligned[1].start = 10000 /\ aligned[1].end = 44500
        /\ aligned[2].start = 45000 /\ aligned[2].end = 79500

\* C14 as claimed: without references line i of n >= 1 gets
\* start = 10 + i * t and end = start + t - 0.5 with
\* t = (max(duration - 20, 40) - 10) / n and matched = false, in the order
\* of the lines; for lines x, y and duration 100 this is (10, 44.5) and
\* (45, 79.5).
C14_EvenDistributionExact ==
    (pc = "done" /\ whisper_segments = <<>>) =>
        \A lines \in {ManualLines(manual_lyrics)} :
            /\ EvenOrder(lines)
            /\ EvenExample
            /\ \A k \in DOMAIN aligned :
                 /\ RatioEq(<<aligned[k].start, 1>>,
                            EvenStart(k - 1, Len(lines)))
                 /\ RatioEq(<<aligned[k].end, 1>>,
                            EvenEnd(k - 1, Len(lines)))

\* C14 as amended: without references line i of n >= 1 gets
\* start = round(10 + i * t, 2) and end = round(10 + i * t + t - 0.5, 2)
\* with t = (max(duration - 20, 40) - 10) / n and matched = false, in the
\* order of the lines; for lines x, y and duration 100 this is (10, 44.5)
\* and (45, 79.5).
C14_EvenDistributionRounded ==
    (pc = "done" /\ whisper_segments = <<>>) =>
        \A lines \in {ManualLines(manual_lyrics)} :
            /\ EvenOrder(lines)
            /\ EvenExample
            /\ \A k \in DOMAIN aligned :
                 /\ aligned[k].start = RoundTime(EvenStart(k - 1, Len(lines)))
                 /\ aligned[k].end = RoundTime(EvenEnd(k - 1, Len(lines)))

\* three lines spread over 70 seconds: the second starts at 33.33
C14_Witness ==
    /\ pc = "done"
    /\ whisper_segments = <<>>
    /\ duration = 100
    /\ Len(aligned) = 3
    /\ aligned[2].start = 33330
    /\ aligned[2].end = 56170


(***************************************************************************)
(* Two calls running at the same time                                      *)
(*                                                                         *)
(* align_manual_lyrics and analyze_lyrics_structure are called on the same *)
(* list of segment dicts, as two threads of the server may do, and run     *)
(* step by step in any interleaving.  The dicts of the list are the first  *)
(* objects of the heap; the dicts a call creates are appended to it.       *)
(***************************************************************************)
MaxCallLines == 2

MaxCallRefs == 2

\* lines a, a, b against two references 'a' whose times run backward: the
\* segment emitted last is not the one that ends last
BackwardCall ==
    [manual_lyrics |-> Pasted(<<TextA, TextA, TextB>>),
     whisper_segments |-> Transcription("backward", <<TextA, TextA>>),
     duration |-> 20]

CallInputs ==
    { [manual_lyrics |-> Pasted(raw),
       whisper_segments |-> Transcription(tl, texts),
       duration |-> 20] :
        raw \in SeqsUpTo({TextA, TextB}, MaxCallLines),
        tl \in {"apart", "overlapping"},
        texts \in SeqsUpTo({TextA, TextAB}, MaxCallRefs) }
      \cup {BackwardCall}

InitCalls ==
    /\ pc = "calls"
    /\ \E in \in CallInputs :
         /\ manual_lyrics = in.manual_lyrics
         /\ whisper_segments = in.whisper_segments
         /\ duration = in.duration
    /\ segments = whisper_segments
    /\ aligned = <<>>
    /\ origin = <<>>
    /\ structure = NoStructure
    /\ heap = whisper_segments
    /\ align_call = [pc |-> "start"]
    /\ analyze_call = [pc |-> "start"]
    /\ NoStorage
    /\ text_call = [op |-> "none"]

\* the dicts of the shared list as they are now
SharedSegments == [k \in 1..Len(whisper_segments) |-> heap[k]]

\* the dicts behind a list of object identities
Deref(ids) == [k \in 1..Len(ids) |-> heap[ids[k]]]

\* lines 199-209 and, without references, 287-305
AlignStart ==
    /\ align_call.pc = "start"
    /\ \E lines \in {ManualLines(manual_lyrics)} :
         IF lines = <<>>
         THEN /\ align_call' = [pc |-> "done"]
              /\ UNCHANGED <<aligned, origin>>
         ELSE IF Len(whisper_segments) > 0
         THEN /\ align_call' = [pc |-> "match", lines |-> lines, i |-> 0,
                                segments |-> <<>>]
              /\ UNCHANGED <<aligned, origin>>
         ELSE \E traced \in {DistributeEvenly(lines, duration)} :
                /\ aligned' = [k \in 1..Len(traced) |-> Returned(traced[k])]
                /\ origin' = [k \in 1..Len(traced) |->
                                 [line |-> traced[k].line,
                                  ref |-> traced[k].ref]]
                /\ align_call' = [pc |-> "done"]
    /\ UNCHANGED <<pc, manual_lyrics, whisper_segments, duration, segments,
                   structure, heap, analyze_call, db_vars, text_call>>

\* one iteration of the loop of lines 211-271: the segment of line i is a
\* new dict
AlignMatchLine ==
    /\ align_call.pc = "match"
    /\ \E emitted \in {Deref(align_call.segments)} :
         \E seg \in {EmitSegment(align_call.lines[align_call.i + 1],
                                 align_call.i, Len(align_call.lines),
                                 SharedSegments, emitted,
                                 UsedIndices(emitted))} :
            /\ heap' = Append(heap, seg)
            /\ align_call' =
                 [align_call EXCEPT
                    !.segments = Append(@, Len(heap) + 1),
                    !.i = @ + 1,
                    !.pc = IF align_call.i + 1 < Len(align_call.lines)
                           THEN "match" ELSE "sort"]
    /\ UNCHANGED <<pc, manual_lyrics, whisper_segments, duration, aligned,
                   origin, segments, structure, analyze_call, db_vars,
                   text_call>>

\* line 274: the local list is sorted by the start of its dicts
AlignSort ==
    /\ align_call.pc = "sort"
    /\ \E keyed \in {SortByStart([k \in 1..Len(align_call.segments) |->
                        [obj |-> align_call.segments[k],
                         start |-> heap[align_call.segments[k]].start]])} :
         align_call' = [pc |-> "repair", k |-> 2,
                        segments |-> [k \in 1..Len(keyed) |-> keyed[k].obj]]
    /\ UNCHANGED <<pc, manual_lyrics, whisper_segments, duration, aligned,
                   origin, segments, structure, heap, analyze_call, db_vars,
                   text_call>>

\* the repair assigning to the dict of the reference list at that position
RepairTargetInReferences(ids, k) ==
    IF k <= Len(whisper_segments) THEN k ELSE ids[k]

\* lines 279-281 assign to segments[i]: the dict at position k of the
\* local list
RepairTarget(ids, k) == ids[k]

\* one iteration of the loop of lines 277-281
AlignRepair ==
    /\ align_call.pc = "repair"
    /\ align_call.k <= Len(align_call.segments)
    /\ \E fixed \in {FixOverlap(Deref(align_call.segments), align_call.k)} :
         heap' = [heap EXCEPT
                    ![RepairTarget(align_call.segments, align_call.k)] =
                        [@ EXCEPT !.start = fixed[align_call.k].start,
                                  !.end = fixed[align_call.k].end]]
    /\ align_call' = [align_call EXCEPT !.k = @ + 1]
    /\ UNCHANGED <<pc, manual_lyrics, whisper_segments, duration, aligned,
                   origin, segments, structure, analyze_call, db_vars,
                   text_call>>

\* line 286
AlignReturn ==
    /\ align_call.pc = "repair"
    /\ align_call.k > Len(align_call.segments)
    /\ \E traced \in {Deref(align_call.segments)} :
         /\ aligned' = [k \in 1..Len(traced) |-> Returned(traced[k])]
         /\ origin' = [k \in 1..Len(traced) |->
                          [line |-> traced[k].line, ref |-> traced[k].ref]]
    /\ align_call' = [pc |-> "done"]
    /\ UNCHANGED <<pc, manual_lyrics, whisper_segments, duration, segments,
                   structure, heap, analyze_call, db_vars, text_call>>

\* lines 355-380
AnalyzeStart ==
    /\ analyze_call.pc = "start"
    /\ IF Len(segments) = 0
       THEN /\ structure' = NoStructure
            /\ analyze_call' = [pc |-> "done"]
       ELSE /\ analyze_call' =
                 [pc |-> "group", i |-> 0,
                  chorus_lines |-> ChorusLines(SharedSegments),
                  st |-> [sections |-> <<>>, current |-> <<>>,
                          verse_count |-> 0, chorus_count |-> 0]]
            /\ UNCHANGED structure
    /\ UNCHANGED <<pc, manual_lyrics, whisper_segments, duration, aligned,
                   origin, segments, heap, align_call, db_vars, text_call>>

\* one iteration of the loop of lines 382-429
AnalyzeGroup ==
    /\ analyze_call.pc = "group"
    /\ analyze_call.i < Len(segments)
    /\ analyze_call' =
         [analyze_call EXCEPT
            !.st = GroupSegment(SharedSegments, analyze_call.chorus_lines,
                                analyze_call.i, @),
            !.i = @ + 1]
    /\ UNCHANGED <<pc, manual_lyrics, whisper_segments, duration, aligned,
                   origin, segments, structure, heap, align_call, db_vars,
                   text_call>>

\* lines 432-434: the last section takes the end of the last segment
AnalyzeClose ==
    /\ analyze_call.pc = "group"
    /\ analyze_call.i >= Len(segments)
    /\ analyze_call' =
         [pc |-> "sections",
          sections |->
              Append(analyze_call.st.sections,
                     analyze_call.st.current[1]
                         @@ [end |-> SharedSegments[Len(segments)].end])]
    /\ UNCHANGED <<pc, manual_lyrics, whisper_segments, duration, aligned,
                   origin, segments, structure, heap, align_call, db_vars,
                   text_call>>

\* lines 436-528: the passes over the sections, which are dicts of this
\* call only
AnalyzeReturn ==
    /\ analyze_call.pc = "sections"
    /\ \E tracked \in
          {TrackRepeats(DetectSpecial(analyze_call.sections, duration))} :
         structure' = [sections |-> tracked.sections,
                       energy_map |-> EnergyMap(tracked.sections),
                       repeated_sections |-> tracked.repeated_sections]
    /\ analyze_call' = [pc |-> "done"]
    /\ UNCHANGED <<pc, manual_lyrics, whisper_segments, duration, aligned,
                   origin, segments, heap, align_call, db_vars, text_call>>

NextCalls ==
    \/ AlignStart
    \/ AlignMatchLine
    \/ AlignSort
    \/ AlignRepair
    \/ AlignReturn
    \/ AnalyzeStart
    \/ AnalyzeGroup
    \/ AnalyzeClose
    \/ AnalyzeReturn

SpecCalls == InitCalls /\ [][NextCalls]_vars

\* C15: the two calls are isolated: the dicts of the list they were both
\* given stay as they were, and in every interleaving each call returns
\* what it returns when run alone on the same arguments.
C15_CallsIsolated ==
    /\ \A k \in 1..Len(whisper_segments) : heap[k] = whisper_segments[k]
    /\ align_call.pc = "done" =>
         aligned = align_manual_lyrics(manual_lyrics, whisper_segments,
                                       duration)
    /\ analyze_call.pc = "done" =>
         structure = analyze_lyrics_structure(whisper_segments, duration)

\* the repair has moved a matched segment while the other call is in the
\* middle of its loop over the same list
C15_Witness ==
    /\ align_call.pc = "repair"
    /\ align_call.k = 3
    /\ analyze_call.pc = "group"
    /\ analyze_call.i = 1
    /\ \E id \in (Len(whisper_segments) + 1)..Len(heap) :
         /\ heap[id].ref >= 0
         /\ heap[id].start # whisper_segments[heap[id].ref + 1].start

\* ---------------------------------------------------------------------
\* Lyric storage: src/db.py, get_lyrics, save_lyrics and
\* update_lyrics_timestamps over table lyrics.
\*
\* A Python value that json can write is a tagged record: None, a number
\* (milliseconds, as everywhere above), a str (a sequence of characters), a
\* list (a sequence of values) or a dict (a sequence of <<key, value>>
\* pairs in insertion order).
\* ---------------------------------------------------------------------

None == [t |-> "null", v |-> <<>>]

\* the Python value with type tag t and payload v
Py(tag, payload) == [t |-> tag, v |-> payload]

\* Python truth value of x, as in `if structure`
Truthy(x) ==
    CASE x.t = "null" -> FALSE
      [] x.t = "num" -> x.v # 0
      [] OTHER -> Len(x.v) > 0

RECURSIVE dumps(_)
RECURSIVE DumpFrom(_, _)

\* the tokens of elements k.. of the list or dict x, separated by commas;
\* a member of a dict is its key, a colon and its value
DumpFrom(x, k) ==
    IF k > Len(x.v) THEN <<>>
    ELSE (IF k > 1 THEN <<[k |-> ",", v |-> 0]>> ELSE <<>>)
         \o (IF x.t = "dict"
             THEN <<[k |-> "str", v |-> x.v[k][1]], [k |-> ":", v |-> 0]>>
                  \o dumps(x.v[k][2])
             ELSE dumps(x.v[k]))
         \o DumpFrom(x, k + 1)

\* json.dumps(x): the JSON text of x, as its sequence of tokens
dumps(x) ==
    CASE x.t = "list" ->
            <<[k |-> "[", v |-> 0]>> \o DumpFrom(x, 1)
            \o <<[k |-> "]", v |-> 0]>>
      [] x.t = "dict" ->
            <<[k |-> "{", v |-> 0]>> \o DumpFrom(x, 1)
            \o <<[k |-> "}", v |-> 0]>>
      [] OTHER -> <<[k |-> x.t, v |-> x.v]>>

RECURSIVE ParseValue(_)
RECURSIVE ParseRest(_, _, _)

\* the elements of a list or dict up to its closing bracket, after those
\* in acc
ParseRest(toks, acc, tag) ==
    LET key == Head(toks).v
        element == ParseValue(IF tag = "dict" THEN Tail(Tail(toks))
                              ELSE toks)
        all == Append(acc, IF tag = "dict" THEN <<key, element.value>>
                           ELSE element.value)
    IN  IF Head(element.rest).k = ","
        THEN ParseRest(Tail(element.rest), all, tag)
        ELSE [value |-> Py(tag, all), rest |-> Tail(element.rest)]

\* the value at the head of a token sequence and the tokens after it
ParseValue(toks) ==
    LET tok == Head(toks)
    IN  CASE tok.k = "[" ->
                IF Head(Tail(toks)).k = "]"
                THEN [value |-> Py("list", <<>>), rest |-> Tail(Tail(toks))]
                ELSE ParseRest(Tail(toks), <<>>, "list")
          [] tok.k = "{" ->
                IF Head(Tail(toks)).k = "}"
                THEN [value |-> Py("dict", <<>>), rest |-> Tail(Tail(toks))]
                ELSE ParseRest(Tail(toks), <<>>, "dict")
          [] OTHER -> [value |-> Py(tok.k, tok.v), rest |-> Tail(toks)]

\* json.loads(text)
loads(text) == ParseValue(text).value

\* get_lyrics(video_id) on the given rows: the row as a dict, with
\* 'segments' and 'structure' added when their cells are truthy (a cell
\* is None for SQL NULL or a str); None when there is no row
get_lyrics(rows, video_id) ==
    IF video_id \notin DOMAIN rows THEN None
    ELSE LET row == rows[video_id]
             parsed_segments ==
                 IF Truthy(row.segments_json)
                 THEN [segments |-> loads(row.segments_json.v)] @@ row
                 ELSE row
         IN  IF Truthy(row.structure_json)
             THEN [structure |-> loads(row.structure_json.v)]
                  @@ parsed_segments
             ELSE parsed_segments

\* the rows after save_lyrics's INSERT OR REPLACE, which writes
\* json.dumps(structure) if structure else None
InsertOrReplace(rows, video_id, segs, sections, now) ==
    (video_id :> [video_id |-> video_id,
                  segments_json |-> Py("str", dumps(segs)),
                  structure_json |-> IF Truthy(sections)
                                     THEN Py("str", dumps(sections))
                                     ELSE None,
                  last_edited |-> now]) @@ rows

\* the rows after update_lyrics_timestamps's UPDATE of an existing row
UpdateSegments(rows, video_id, segs, now) ==
    [rows EXCEPT ![video_id].segments_json = Py("str", dumps(segs)),
                 ![video_id].last_edited = now]

\* ---- what the storage is called with ----

VideoIds == {"v1", "v2"}

\* datetime.now().isoformat() at two moments
Clock == {"t1", "t2"}

\* a segment dict {'start', 'end', 'text'}
PySegment(start, end, text) ==
    Py("dict", << <<"start", Py("num", start)>>, <<"end", Py("num", end)>>,
                  <<"text", Py("str", text)>> >>)

\* a section dict of one line as analyze_lyrics_structure builds it
PySection(type, label, start, end, text) ==
    Py("dict", << <<"type", Py("str", type)>>, <<"label", Py("str", label)>>,
                  <<"start", Py("num", start)>>,
                  <<"lines", Py("list", <<Py("str", text)>>)>>,
                  <<"line_texts", Py("list", <<Py("str", text)>>)>>,
                  <<"end", Py("num", end)>> >>)

\* segment sequences: empty, one segment, two segments
SegmentValues ==
    { Py("list", <<>>),
      Py("list", <<PySegment(0, 2000, TextA)>>),
      Py("list", <<PySegment(0, 2000, TextA),
                   PySegment(5000, 7000, TextB)>>) }

\* sections sequences: empty, one section, two sections
SectionValues ==
    { Py("list", <<>>),
      Py("list", <<PySection("verse", "VERSE 1", 0, 2000, TextA)>>),
      Py("list", <<PySection("intro", "INTRO", 0, 2000, TextA),
                   PySection("outro", "OUTRO", 5000, 7000, TextB)>>) }

\* the storage is empty and no call was made
InitStorage ==
    /\ pc = "storage"
    /\ manual_lyrics = <<>>
    /\ whisper_segments = <<>>
    /\ duration = 0
    /\ aligned = <<>>
    /\ origin = <<>>
    /\ segments = <<>>
    /\ structure = NoStructure
    /\ NoCalls
    /\ NoStorage
    /\ text_call = [op |-> "none"]

\* save_lyrics(video_id, segments, structure), lines 297-313, with the
\* get_lyrics it returns
SaveLyrics ==
    /\ pc = "storage"
    /\ \E video_id \in VideoIds, segs \in SegmentValues,
          sections \in SectionValues \cup {None}, now \in Clock :
         \E rows \in {InsertOrReplace(lyrics_rows, video_id, segs,
                                      sections, now)} :
            /\ lyrics_rows' = rows
            /\ db_call' = [op |-> "save_lyrics", video_id |-> video_id,
                           segments |-> segs, structure |-> sections,
                           result |-> get_lyrics(rows, video_id)]
    /\ UNCHANGED <<pc, manual_lyrics, whisper_segments, duration, aligned,
                   origin, segments, structure, call_vars, routine_vars,
                   text_call>>

\* get_lyrics(video_id), lines 278-294
GetLyrics ==
    /\ pc = "storage"
    /\ \E video_id \in VideoIds :
         db_call' = [op |-> "get_lyrics", video_id |-> video_id,
                     result |-> get_lyrics(lyrics_rows, video_id)]
    /\ UNCHANGED <<pc, manual_lyrics, whisper_segments, duration, aligned,
                   origin, segments, structure, call_vars,
                   lyrics_rows, routine_vars, text_call>>

\* update_lyrics_timestamps(video_id, segments), lines 316-334: without a
\* row it is save_lyrics(video_id, segments), with one it replaces the
\* segments and keeps the structure
UpdateLyricsTimestamps ==
    /\ pc = "storage"
    /\ \E video_id \in VideoIds, segs \in SegmentValues, now \in Clock :
         \E rows \in { IF get_lyrics(lyrics_rows, video_id) = None
                       THEN InsertOrReplace(lyrics_rows, video_id, segs,
                                            None, now)
                       ELSE UpdateSegments(lyrics_rows, video_id, segs,
                                           now) } :
            /\ lyrics_rows' = rows
            /\ db_call' = [op |-> "update_lyrics_timestamps",
                           video_id |-> video_id, segments |-> segs,
                           result |-> get_lyrics(rows, video_id)]
    /\ UNCHANGED <<pc, manual_lyrics, whisper_segments, duration, aligned,
                   origin, segments, structure, call_vars, routine_vars,
                   text_call>>

NextStorage == SaveLyrics \/ GetLyrics \/ UpdateLyricsTimestamps

SpecStorage == InitStorage /\ [][NextStorage]_vars

\* C16: save_lyrics(id, segments, sections) followed by get_lyrics(id)
\* returns a record whose 'segments' equals the saved segments and whose
\* 'structure' equals the saved sections, for every sections sequence, the
\* empty one included.
C16_SaveThenGetReturnsSaved ==
    (db_call.op = "save_lyrics" /\ db_call.structure.t = "list") =>
        \A got \in {get_lyrics(lyrics_rows, db_call.video_id)} :
            /\ "segments" \in DOMAIN got
            /\ got.segments = db_call.segments
            /\ "structure" \in DOMAIN got
            /\ got.structure = db_call.structure

\* ---------------------------------------------------------------------
\* The text functions on their own: normalize_text_for_comparison and
\* text_similarity called on every text over a small alphabet (a lower
\* case letter, an upper case letter, a punctuation mark, a space and a
\* tab).
\* ---------------------------------------------------------------------

MaxTextLen == 4

MaxPairLen == 3

\* the texts of at most n characters over the given characters
TextsOver(chars, n) == UNION { [1..l -> chars] : l \in 0..n }

\* the arguments of normalize_text_for_comparison
NormalizeTexts == TextsOver({"a", "B", "!", " ", "\t"}, MaxTextLen)

\* the arguments of text_similarity
SimilarityTexts == TextsOver({"a", "B", "!", " "}, MaxPairLen)

\* a call of a text function is about to be made
InitText ==
    /\ pc = "text"
    /\ manual_lyrics = <<>>
    /\ whisper_segments = <<>>
    /\ duration = 0
    /\ aligned = <<>>
    /\ origin = <<>>
    /\ segments = <<>>
    /\ structure = NoStructure
    /\ NoCalls
    /\ NoStorage
    /\ \/ \E text \in NormalizeTexts :
            text_call = [op |-> "normalize_text_for_comparison",
                         text |-> text]
       \/ \E text1 \in SimilarityTexts, text2 \in SimilarityTexts :
            text_call = [op |-> "text_similarity",
                         text1 |-> text1, text2 |-> text2]

\* the call normalize_text_for_comparison(text)
Normalize ==
    /\ pc = "text"
    /\ text_call.op = "normalize_text_for_comparison"
    /\ pc' = "done"
    /\ text_call' =
         [result |-> normalize_text_for_comparison(text_call.text)]
         @@ text_call
    /\ UNCHANGED <<manual_lyrics, whisper_segments, duration, aligned,
                   origin, segments, structure, call_vars, db_vars>>

\* the call text_similarity(text1, text2)
Similarity ==
    /\ pc = "text"
    /\ text_call.op = "text_similarity"
    /\ pc' = "done"
    /\ text_call' =
         [result |-> text_similarity(text_call.text1, text_call.text2)]
         @@ text_call
    /\ UNCHANGED <<manual_lyrics, whisper_segments, duration, aligned,
                   origin, segments, structure, call_vars, db_vars>>

NextText == Normalize \/ Similarity

SpecText == InitText /\ [][NextText]_vars

\* the normalized word set of a text
WordSet(text) == SeqToSet(Split(normalize_text_for_comparison(text)))

\* C17: text_similarity is symmetric: the value returned for (a, b) is the
\* value of text_similarity(b, a).
C17_SimilaritySymmetric ==
    (pc = "done" /\ text_call.op = "text_similarity") =>
        text_call.result = text_similarity(text_call.text2, text_call.text1)

\* a call on two texts with different word sets, one word in common of two
C17_Witness ==
    /\ pc = "done"
    /\ text_call.op = "text_similarity"
    /\ text_call.text1 = <<"a">>
    /\ text_call.text2 = <<"B", " ", "a">>
    /\ text_call.result = <<1, 2>>

\* C18: text_similarity returns 0.0 as such (<<0, 1>>, no quotient taken)
\* when the normalized word set of either argument is empty, in particular
\* when an argument is the empty text; otherwise it returns
\* |intersection| / |union| of the two word sets, which is in [0, 1].
C18_ZeroOnEmptyElseJaccard ==
    (pc = "done" /\ text_call.op = "text_similarity") =>
        \A words1 \in {WordSet(text_call.text1)},
           words2 \in {WordSet(text_call.text2)} :
            /\ (text_call.text1 = <<>> \/ text_call.text2 = <<>>)
                 => text_call.result = <<0, 1>>
            /\ (words1 = {} \/ words2 = {}) => text_call.result = <<0, 1>>
            /\ (words1 # {} /\ words2 # {}) =>
                 /\ text_call.result =
                      <<Cardinality(words1 \cap words2),
                        Cardinality(words1 \cup words2)>>
                 /\ text_call.result[2] > 0
                 /\ 0 <= text_call.result[1]
                 /\ text_call.result[1] <= text_call.result[2]

\* a text of punctuation only, which has no words, against a text with one
C18_Witness ==
    /\ pc = "done"
    /\ text_call.op = "text_similarity"
    /\ text_call.text1 = <<"!">>
    /\ WordSet(text_call.text2) = {<<"a">>}
    /\ text_call.result = <<0, 1>>

\* C19: text_similarity(a, a) is 1.0 for every text a whose normalization
\* has at least one word.
C19_SelfSimilarityOne ==
    ( /\ pc = "done"
      /\ text_call.op = "text_similarity"
      /\ text_call.text1 = text_call.text2
      /\ Split(normalize_text_for_comparison(text_call.text1)) # <<>> )
    => RatioEq(text_call.result, <<1, 1>>)

\* a text of two words compared with itself
C19_Witness ==
    /\ pc = "done"
    /\ text_call.op = "text_similarity"
    /\ text_call.text1 = <<"a", " ", "B">>
    /\ text_call.text2 = <<"a", " ", "B">>
    /\ text_call.result = <<2, 2>>

\* C20: normalize_text_for_comparison is idempotent and total: it returns
\* a text for every text, normalizing the returned text gives the same
\* text again, and the empty text gives the empty text.
C20_NormalizeIdempotent ==
    (pc = "done" /\ text_call.op = "normalize_text_for_comparison") =>
        /\ text_call.result \in Seq(LowerLetters \cup {" "})
        /\ normalize_text_for_comparison(text_call.result) = text_call.result
        /\ text_call.text = <<>> => text_call.result = <<>>

\* a text that every step of the normalization changes
C20_Witness ==
    /\ pc = "done"
    /\ text_call.op = "normalize_text_for_comparison"
    /\ text_call.text = <<"a", "!", "\t", "B">>
    /\ text_call.result = <<"a", " ", "b">>

(***************************************************************************)
(* The passes of analyze_lyrics_structure                                  *)
(***************************************************************************)
\* the number of lines in the sections before section p, which is the
\* 0-based index of the segment that opened section p
RECURSIVE LinesBefore(_)
LinesBefore(p) ==
    IF p <= 1 THEN 0
    ELSE LinesBefore(p - 1) + Len(structure.sections[p - 1].lines)

\* the normalized text of segment k (0-based)
NormalizedText(k) == normalize_text_for_comparison(segments[k + 1].text)

\* the candidate type of segment k (0-based): chorus when its normalized
\* text has at least 5 characters and another segment has the same
CandidateType(k) ==
    IF /\ Len(NormalizedText(k)) >= 5
       /\ \E o \in 0..(Len(segments) - 1) :
             o # k /\ NormalizedText(o) = NormalizedText(k)
    THEN "chorus" ELSE "verse"

\* C21: segment k >= 1 opens a new section exactly when its candidate type
\* differs from that of the open section (the type of segment k - 1) or
\* its start minus the end of segment k - 1 is greater than 4 seconds; a
\* gap of exactly 4 does not split.  The section closed then ends at the
\* end of segment k - 1 and the new one starts at the start of segment k.
C21_NewSectionOnTypeChangeOrGap ==
    pc = "done" =>
        \A k \in 1..(Len(segments) - 1) :
            \A opened \in { { p \in 2..Len(structure.sections) :
                                LinesBefore(p) = k } } :
                /\ opened # {}
                     <=> \/ CandidateType(k) # CandidateType(k - 1)
                         \/ segments[k + 1].start - segments[k].end > 4000
                /\ \A p \in opened :
                     /\ structure.sections[p].start = segments[k + 1].start
                     /\ structure.sections[p - 1].end = segments[k].end

\* three lines of one type: a gap of exactly 4 seconds, which keeps the
\* section open, then a gap of 5 seconds, which opens a new one
C21_Witness ==
    /\ pc = "done"
    /\ Len(segments) = 3
    /\ CandidateType(0) = CandidateType(1)
    /\ CandidateType(1) = CandidateType(2)
    /\ segments[2].start - segments[1].end = 4000
    /\ segments[3].start - segments[2].end = 5000
    /\ Len(structure.sections) = 2
    /\ Len(structure.sections[1].lines) = 2

\* C22: the lines of the sections, taken in section order, are the texts
\* of the input segments in input order; every section has at least one
\* line; line_texts is as long as lines and holds the normalization of
\* each line; the sections have the lines they had after Pass 2.
C22_LinesPartitionTheSegments ==
    pc = "done" =>
        /\ LinesBefore(Len(structure.sections) + 1) = Len(segments)
        /\ \A p \in DOMAIN structure.sections :
             \A section \in {structure.sections[p]} :
                /\ Len(section.lines) >= 1
                /\ Len(section.line_texts) = Len(section.lines)
                /\ \A l \in 1..Len(section.lines) :
                     /\ LinesBefore(p) + l <= Len(segments)
                     /\ section.lines[l] = segments[LinesBefore(p) + l].text
                     /\ section.line_texts[l] =
                          normalize_text_for_comparison(section.lines[l])
        /\ \A grouped \in {GroupSections(segments)} :
             /\ Len(grouped) = Len(structure.sections)
             /\ \A p \in DOMAIN grouped :
                  /\ grouped[p].lines = structure.sections[p].lines
                  /\ grouped[p].line_texts = structure.sections[p].line_texts

\* several sections, one relabelled by Pass 3, one marked as a repeat by
\* Pass 4, and a line that differs from its normalization
C22_Witness ==
    /\ pc = "done"
    /\ Len(structure.sections) >= 2
    /\ \E p \in DOMAIN structure.sections :
         structure.sections[p].type \in {"pre-chorus", "intro", "outro"}
    /\ \E p \in DOMAIN structure.sections :
         /\ "repeat_of" \in DOMAIN structure.sections[p]
         /\ structure.sections[p].lines[1]
              # structure.sections[p].line_texts[1]

\* the segments (0-based) whose normalized text has fewer than 5 characters
ShortSegments ==
    { k \in 0..(Len(segments) - 1) : Len(NormalizedText(k)) < 5 }

\* C23: a line whose normalized text has fewer than 5 characters is in a
\* section (every short segment is the line of some section) whose Pass-2
\* type is verse and whose final type is not chorus, however often the
\* text repeats; every line of a section of final type chorus has a
\* normalized text of at least 5 characters that at least two segments
\* have.
C23_ShortLinesNeverChorus ==
    pc = "done" =>
        \A grouped \in {GroupSections(segments)} :
            /\ \A k \in ShortSegments :
                 \E p \in DOMAIN structure.sections :
                    /\ LinesBefore(p) <= k
                    /\ k < LinesBefore(p + 1)
                    /\ structure.sections[p].lines[k - LinesBefore(p) + 1]
                         = segments[k + 1].text
                    /\ grouped[p].type = "verse"
                    /\ structure.sections[p].type # "chorus"
            /\ \A p \in DOMAIN structure.sections :
                 structure.sections[p].type = "chorus" =>
                    \A l \in DOMAIN structure.sections[p].line_texts :
                       \A text \in {structure.sections[p].line_texts[l]} :
                          /\ Len(text) >= 5
                          /\ Cardinality(
                                { k \in 0..(Len(segments) - 1) :
                                    NormalizedText(k) = text }) >= 2

\* a short text three times over, next to nothing else
C23_Witness ==
    /\ pc = "done"
    /\ Len(segments) = 3
    /\ ShortSegments = {0, 1, 2}
    /\ NormalizedText(0) = NormalizedText(1)
    /\ NormalizedText(1) = NormalizedText(2)
    /\ structure.sections # <<>>

\* C24: the last section has type outro and label OUTRO exactly when its
\* end is greater than duration - 20 and its Pass-2 type is not chorus,
\* whatever the bridge and intro checks made of it before: a single verse
\* section that meets the intro condition as well ends as OUTRO.  No other
\* section has type outro.
C24_OutroIsLastSectionNearEnd ==
    (pc = "done" /\ segments # <<>>) =>
        \A last \in {Len(structure.sections)},
           grouped \in {GroupSections(segments)} :
            /\ ( /\ structure.sections[last].type = "outro"
                 /\ structure.sections[last].label = "OUTRO" )
                 <=> ( /\ structure.sections[last].end
                            > 1000 * (duration - 20)
                       /\ grouped[last].type # "chorus" )
            /\ structure.sections[last].type = "outro"
                 <=> structure.sections[last].label = "OUTRO"
            /\ \A p \in 1..(last - 1) :
                 /\ structure.sections[p].type # "outro"
                 /\ structure.sections[p].label # "OUTRO"

\* a single verse section that starts before 15 with at most 4 lines and
\* ends after duration - 20: it is OUTRO
C24_Witness ==
    /\ pc = "done"
    /\ Len(structure.sections) = 1
    /\ GroupSections(segments)[1].type = "verse"
    /\ structure.sections[1].start < 15000
    /\ Len(structure.sections[1].lines) <= 4
    /\ structure.sections[1].end > 1000 * (duration - 20)
    /\ structure.sections[1].label = "OUTRO"

\* C25: a section of Pass-2 type verse with at most 3 lines whose
\* successor is a chorus is in the result a pre-chorus with label
\* PRE-CHORUS (not a bridge, not an intro); and every pre-chorus of a
\* result is such a section, so that its successor is a chorus.
C25_PreChorusBeforeChorus ==
    pc = "done" =>
        \A grouped \in {GroupSections(segments)} :
            \A p \in DOMAIN structure.sections :
                /\ ( /\ grouped[p].type = "verse"
                     /\ Len(grouped[p].lines) <= 3
                     /\ p < Len(grouped)
                     /\ grouped[p + 1].type = "chorus" )
                     <=> structure.sections[p].type = "pre-chorus"
                /\ structure.sections[p].type = "pre-chorus"
                     <=> structure.sections[p].label = "PRE-CHORUS"
                /\ structure.sections[p].type = "pre-chorus" =>
                     /\ p < Len(structure.sections)
                     /\ structure.sections[p + 1].type = "chorus"

\* a first section of three lines that starts after 60 percent of the
\* duration, before a chorus: it would pass for a bridge, and is the
\* pre-chorus
C25_Witness ==
    /\ pc = "done"
    /\ Len(structure.sections) = 2
    /\ Len(structure.sections[1].lines) = 3
    /\ structure.sections[1].start > 600 * duration
    /\ structure.sections[1].type = "pre-chorus"
    /\ structure.sections[2].type = "chorus"

\* C26: a section of type intro is the first section, starts before second
\* 15, has at most 4 lines and was still a verse when the loop of Pass 3
\* was through (not a chorus, not relabelled pre-chorus or bridge); such a
\* first section is the intro unless it is also the last one and made the
\* outro.  The label INTRO goes with the type intro.
C26_IntroIsEarlyShortFirstVerse ==
    (pc = "done" /\ segments # <<>>) =>
        \A after_loop \in
              {SpecialFrom(GroupSections(segments), 1, duration)} :
            /\ \A p \in DOMAIN structure.sections :
                 /\ structure.sections[p].type = "intro" => p = 1
                 /\ structure.sections[p].type = "intro"
                      <=> structure.sections[p].label = "INTRO"
            /\ structure.sections[1].type = "intro" =>
                 /\ structure.sections[1].start < 15000
                 /\ Len(structure.sections[1].lines) <= 4
                 /\ after_loop[1].type = "verse"
            /\ ( /\ structure.sections[1].start < 15000
                 /\ Len(structure.sections[1].lines) <= 4
                 /\ after_loop[1].type = "verse" )
                 => \/ structure.sections[1].type = "intro"
                    \/ /\ Len(structure.sections) = 1
                       /\ structure.sections[1].type = "outro"

\* a first section that starts before second 15 with 4 lines and is the
\* bridge already: it is not made the intro
C26_Witness ==
    /\ pc = "done"
    /\ Len(structure.sections) = 2
    /\ structure.sections[1].start < 15000
    /\ Len(structure.sections[1].lines) = 4
    /\ structure.sections[1].type = "bridge"

\* the similarity of the first three normalized lines, joined, of
\* sections p and o of the result
ContentSimilarity(p, o) ==
    text_similarity(
        Join(Prefix(structure.sections[p].line_texts, 3), <<" ">>),
        Join(Prefix(structure.sections[o].line_texts, 3), <<" ">>))

\* C27: a section that is still a verse when Pass 3 comes to its bridge
\* test (a verse of Pass 2 not made the pre-chorus) becomes the bridge
\* exactly when it starts after 0.6 * duration, has at most 4 lines and is
\* at most 0.5 similar to every other section; it is BRIDGE in the result
\* unless it is the last section and made the outro.  Every bridge of a
\* result starts after 60 percent of the duration and has at most 4 lines.
C27_BridgeIsLateShortUnique ==
    pc = "done" =>
        \A grouped \in {GroupSections(segments)} :
            \A p \in DOMAIN structure.sections :
                \A still_verse \in
                      { /\ grouped[p].type = "verse"
                        /\ ~ ( /\ Len(grouped[p].lines) <= 3
                               /\ p < Len(grouped)
                               /\ grouped[p + 1].type = "chorus" ) },
                   qualifies \in
                      { /\ structure.sections[p].start > 600 * duration
                        /\ Len(structure.sections[p].lines) <= 4
                        /\ \A o \in DOMAIN structure.sections :
                             o # p => ~RatioLess(<<1, 2>>,
                                                 ContentSimilarity(p, o)) },
                   made_outro \in
                      { /\ p = Len(structure.sections)
                        /\ structure.sections[p].end
                             > 1000 * (duration - 20) } :
                    /\ structure.sections[p].type = "bridge"
                         <=> (still_verse /\ qualifies /\ ~made_outro)
                    /\ structure.sections[p].type = "bridge"
                         <=> structure.sections[p].label = "BRIDGE"
                    /\ structure.sections[p].type = "bridge" =>
                         /\ structure.sections[p].start > 600 * duration
                         /\ Len(structure.sections[p].lines) <= 4

\* a bridge that is exactly 0.5 similar to another section
C27_Witness ==
    /\ pc = "done"
    /\ \E p \in DOMAIN structure.sections :
         /\ structure.sections[p].type = "bridge"
         /\ \E o \in DOMAIN structure.sections :
              o # p /\ ContentSimilarity(p, o) = <<1, 2>>

\* the sections up to p that Pass 2 created with the given type: the type
\* of a section is the candidate type of its first line
CreatedUpTo(p, type) ==
    { q \in 1..p : CandidateType(LinesBefore(q)) = type }

\* C28: the first chorus section has label CHORUS and every later one
\* CHORUS (repeat), so at most one section has label CHORUS; a section
\* that is still a verse in the result and was the k-th verse Pass 2
\* created has label VERSE k, whatever Pass 3 relabelled before it; and
\* every label is the one Pass 2 gave unless Pass 3 relabelled that very
\* section.
C28_LabelsFromCounters ==
    pc = "done" =>
        /\ \A p \in DOMAIN structure.sections :
             \A section \in {structure.sections[p]} :
                /\ section.type = "chorus" =>
                     /\ CandidateType(LinesBefore(p)) = "chorus"
                     /\ section.label =
                          IF Cardinality(CreatedUpTo(p, "chorus")) = 1
                          THEN "CHORUS" ELSE "CHORUS (repeat)"
                /\ section.type = "verse" =>
                     /\ CandidateType(LinesBefore(p)) = "verse"
                     /\ section.label =
                          "VERSE " \o
                            ToString(Cardinality(CreatedUpTo(p, "verse")))
                /\ section.type \in {"verse", "chorus"} =>
                     section.label = GroupSections(segments)[p].label
                /\ section.type \notin {"verse", "chorus"} =>
                     section.label \in
                        {"PRE-CHORUS", "BRIDGE", "INTRO", "OUTRO"}
        /\ Cardinality({ p \in DOMAIN structure.sections :
                           structure.sections[p].label = "CHORUS" }) <= 1

\* verse numbers with a gap: the first verse became the intro and the
\* sections after it are still VERSE 2 and VERSE 3
C28_Witness ==
    /\ pc = "done"
    /\ Len(structure.sections) = 3
    /\ structure.sections[1].label = "INTRO"
    /\ structure.sections[2].label = "VERSE 2"
    /\ structure.sections[3].label = "VERSE 3"


(***************************************************************************)
(* The interpolation of align_manual_lyrics                                *)
(***************************************************************************)
\* the times of the references are rounded to two decimals, as
\* transcribe_audio rounds them
RoundedTimes(refs) ==
    \A k \in 1..Len(refs) : refs[k].start % 10 = 0 /\ refs[k].end % 10 = 0

\* C29: with references (their times in hundredths of a second, as
\* transcribe_audio makes them), a line that consumed no reference is in
\* the list before it is sorted with matched = false, similarity = 0 and
\* a duration of 3.0; its start is the end of the segment emitted for the
\* line before it plus 0.5, whichever segment ends last, and the start of
\* the first reference when it is the first line.
C29_UnmatchedLineInterpolated ==
    (/\ align_call.pc \in {"match", "sort"}
     /\ whisper_segments # <<>>
     /\ RoundedTimes(whisper_segments)) =>
        \A emitted \in {Deref(align_call.segments)} :
            \A k \in 1..Len(emitted) :
                emitted[k].ref = -1 =>
                    /\ emitted[k].matched = FALSE
                    /\ emitted[k].similarity = 0
                    /\ emitted[k].end - emitted[k].start = 3000
                    /\ emitted[k].start =
                           IF k = 1 THEN whisper_segments[1].start
                           ELSE emitted[k - 1].end + 500

\* every line is emitted and the list is not sorted yet: the third line
\* consumed no reference, and the segment emitted before it ends earlier
\* than the first one
C29_Witness ==
    /\ align_call.pc = "sort"
    /\ RoundedTimes(whisper_segments)
    /\ \E emitted \in {Deref(align_call.segments)} :
         /\ Len(emitted) = 3
         /\ emitted[3].ref = -1
         /\ emitted[2].end < emitted[1].end
         /\ emitted[3].start = emitted[2].end + 500

\* the first line consumed no reference and starts with the first
\* reference
C29_FirstLineCase ==
    /\ align_call.pc \in {"match", "sort"}
    /\ RoundedTimes(whisper_segments)
    /\ \E emitted \in {Deref(align_call.segments)} :
         /\ Len(emitted) >= 1
         /\ emitted[1].ref = -1
         /\ emitted[1].start = whisper_segments[1].start

\* the statement of C29 on references with times in milliseconds
C29_WithoutRounding ==
    (/\ align_call.pc \in {"match", "sort"}
     /\ whisper_segments # <<>>) =>
        \A emitted \in {Deref(align_call.segments)} :
            \A k \in 1..Len(emitted) :
                emitted[k].ref = -1 =>
                    emitted[k].start =
                        IF k = 1 THEN whisper_segments[1].start
                        ELSE emitted[k - 1].end + 500


\* ---------------------------------------------------------------------
\* Routine storage: src/db.py, save_routine, update_routine,
\* delete_routine, set_default_routine and delete_song over tables
\* routines and songs.
\*
\* A row of routines is a record of its routine_id, video_id and
\* is_default; version_name and move_sequence_json are left out, no
\* statement reads them. An optional argument is the empty set for None
\* and the set of its value otherwise.
\* ---------------------------------------------------------------------

MaxRoutines == 3

\* the routine ids a call can name: those given out and one never given
RoutineIds == 1..(MaxRoutines + 1)

VersionNames == {"Original", "New Version"}

\* the flags left as they are
ClearDefaultNowhere(rows, video_ids) == rows

\* UPDATE routines SET is_default = 0 WHERE video_id = ?, for the
\* video_id in video_ids (none when the subquery of line 436 finds no row)
ClearDefault(rows, video_ids) ==
    [id \in DOMAIN rows |->
        IF rows[id].video_id \in video_ids
        THEN [rows[id] EXCEPT !.is_default = 0] ELSE rows[id]]

\* get_routine(None, routine_id): the row, None when there is none
get_routine(rows, routine_id) ==
    IF routine_id \in DOMAIN rows THEN rows[routine_id] ELSE None

\* the rows after save_routine inserted the row routine_id
save_routine(rows, routine_id, video_id, version_name, is_default) ==
    LET cleared == IF is_default THEN ClearDefault(rows, {video_id})
                   ELSE rows
        is_first == \A id \in DOMAIN cleared :
                        cleared[id].video_id # video_id
    IN  (routine_id :> [routine_id |-> routine_id, video_id |-> video_id,
                        is_default |-> IF is_default \/ is_first
                                       THEN 1 ELSE 0]) @@ cleared

\* the rows after update_routine: without an argument to write it returns
\* before any statement ran
update_routine(rows, routine_id, version_name, is_default) ==
    LET cleared ==
            IF is_default = {TRUE}
            THEN ClearDefault(rows, { rows[id].video_id :
                                        id \in DOMAIN rows \cap {routine_id} })
            ELSE rows
    IN  IF version_name = {} /\ is_default = {} THEN rows
        ELSE [id \in DOMAIN cleared |->
                 IF id # routine_id THEN cleared[id]
                 ELSE [cleared[id] EXCEPT
                         !.is_default =
                             IF is_default = {} THEN @
                             ELSE IF is_default = {TRUE} THEN 1 ELSE 0]]

\* the rows after delete_routine
delete_routine(rows, routine_id) ==
    [id \in DOMAIN rows \ {routine_id} |-> rows[id]]

\* the rows after set_default_routine
set_default_routine(rows, routine_id) ==
    IF routine_id \notin DOMAIN rows THEN rows
    ELSE [ClearDefault(rows, {rows[routine_id].video_id})
             EXCEPT ![routine_id].is_default = 1]

\* the rows of routines after delete_song
delete_song(rows, video_id) ==
    [id \in { r \in DOMAIN rows : rows[r].video_id # video_id } |-> rows[id]]

\* some songs are stored and no routine yet
InitRoutines ==
    /\ pc = "routines"
    /\ manual_lyrics = <<>>
    /\ whisper_segments = <<>>
    /\ duration = 0
    /\ aligned = <<>>
    /\ origin = <<>>
    /\ segments = <<>>
    /\ structure = NoStructure
    /\ NoCalls
    /\ lyrics_rows = <<>>
    /\ db_call = [op |-> "none"]
    /\ songs \in SUBSET VideoIds
    /\ routines = <<>>
    /\ sqlite_sequence = 0
    /\ text_call = [op |-> "none"]

\* save_routine(video_id, move_sequence, version_name, is_default), lines
\* 385-410; AUTOINCREMENT gives the id after the largest one given out
SaveRoutine ==
    /\ pc = "routines"
    /\ sqlite_sequence < MaxRoutines
    /\ \E video_id \in VideoIds, version_name \in VersionNames,
          is_default \in BOOLEAN :
         \E rows \in {save_routine(routines, sqlite_sequence + 1, video_id,
                                   version_name, is_default)} :
            /\ routines' = rows
            /\ sqlite_sequence' = sqlite_sequence + 1
            /\ db_call' = [op |-> "save_routine", video_id |-> video_id,
                           is_default |-> {is_default},
                           result |-> get_routine(rows, sqlite_sequence + 1)]
    /\ UNCHANGED <<pc, manual_lyrics, whisper_segments, duration, aligned,
                   origin, segments, structure, call_vars, lyrics_rows,
                   songs, text_call>>

\* update_routine(routine_id, None, version_name, is_default), lines
\* 413-453
UpdateRoutine ==
    /\ pc = "routines"
    /\ \E routine_id \in RoutineIds,
          version_name \in {{}} \cup { {name} : name \in VersionNames },
          is_default \in {{}, {TRUE}, {FALSE}} :
         \E rows \in {update_routine(routines, routine_id, version_name,
                                     is_default)} :
            /\ routines' = rows
            /\ db_call' = [op |-> "update_routine",
                           routine_id |-> routine_id,
                           is_default |-> is_default,
                           result |-> get_routine(rows, routine_id)]
    /\ UNCHANGED <<pc, manual_lyrics, whisper_segments, duration, aligned,
                   origin, segments, structure, call_vars, lyrics_rows,
                   songs, sqlite_sequence, text_call>>

\* delete_routine(routine_id), lines 456-467
DeleteRoutine ==
    /\ pc = "routines"
    /\ \E routine_id \in RoutineIds :
         /\ routines' = delete_routine(routines, routine_id)
         /\ db_call' = [op |-> "delete_routine", routine_id |-> routine_id,
                        is_default |-> {},
                        result |-> routine_id \in DOMAIN routines]
    /\ UNCHANGED <<pc, manual_lyrics, whisper_segments, duration, aligned,
                   origin, segments, structure, call_vars, lyrics_rows,
                   songs, sqlite_sequence, text_call>>

\* set_default_routine(routine_id), lines 470-492
SetDefaultRoutine ==
    /\ pc = "routines"
    /\ \E routine_id \in RoutineIds :
         /\ routines' = set_default_routine(routines, routine_id)
         /\ db_call' = [op |-> "set_default_routine",
                        routine_id |-> routine_id, is_default |-> {TRUE},
                        result |-> routine_id \in DOMAIN routines]
    /\ UNCHANGED <<pc, manual_lyrics, whisper_segments, duration, aligned,
                   origin, segments, structure, call_vars, lyrics_rows,
                   songs, sqlite_sequence, text_call>>

\* delete_song(video_id), lines 261-275
DeleteSong ==
    /\ pc = "routines"
    /\ \E video_id \in VideoIds :
         /\ routines' = delete_song(routines, video_id)
         /\ songs' = songs \ {video_id}
         /\ db_call' = [op |-> "delete_song", video_id |-> video_id,
                        is_default |-> {},
                        result |-> video_id \in songs]
    /\ UNCHANGED <<pc, manual_lyrics, whisper_segments, duration, aligned,
                   origin, segments, structure, call_vars, lyrics_rows,
                   sqlite_sequence, text_call>>

NextRoutines ==
    \/ SaveRoutine
    \/ UpdateRoutine
    \/ DeleteRoutine
    \/ SetDefaultRoutine
    \/ DeleteSong

SpecRoutines == InitRoutines /\ [][NextRoutines]_vars

\* the routines of a song that carry the flag
DefaultsOf(rows, video_id) ==
    { id \in DOMAIN rows :
        rows[id].video_id = video_id /\ rows[id].is_default = 1 }

\* each song has at most one routine with is_default = 1
AtMostOneDefault ==
    \A video_id \in VideoIds :
        Cardinality(DefaultsOf(routines, video_id)) <= 1

\* the routine the call of this step made the default: the one inserted by
\* save_routine with is_default, the existing one named to update_routine
\* with is_default true or to set_default_routine
MadeDefault ==
    IF db_call'.op = "save_routine"
    THEN IF db_call'.is_default = {TRUE} THEN {sqlite_sequence'} ELSE {}
    ELSE IF db_call'.op \in {"update_routine", "set_default_routine"}
            /\ db_call'.is_default = {TRUE}
    THEN {db_call'.routine_id} \cap DOMAIN routines
    ELSE {}

\* C30: after every call of save_routine, update_routine,
\* set_default_routine, delete_routine and delete_song each song has at
\* most one routine with is_default = 1; a call that makes a routine the
\* default leaves it with the flag, clears the flag of every other routine
\* of its song and leaves the rows of every other song as they were.
C30_OneDefaultPerSong ==
    [][ /\ AtMostOneDefault'
        /\ \A made \in MadeDefault :
             /\ routines'[made].is_default = 1
             /\ \A id \in DOMAIN routines' \ {made} :
                  IF routines'[id].video_id = routines'[made].video_id
                  THEN routines'[id].is_default = 0
                  ELSE routines'[id] = routines[id]
             /\ \A id \in DOMAIN routines : id \in DOMAIN routines'
      ]_vars

\* set_default_routine moved the flag from the first routine of a song to
\* its second one while a routine of the other song keeps its own flag
C30_Witness ==
    /\ db_call.op = "set_default_routine"
    /\ db_call.result
    /\ \E made \in DOMAIN routines, other \in DOMAIN routines,
          kept \in DOMAIN routines :
         /\ made = db_call.routine_id
         /\ other < made
         /\ routines[other].video_id = routines[made].video_id
         /\ routines[made].is_default = 1
         /\ routines[other].is_default = 0
         /\ routines[kept].video_id # routines[made].video_id
         /\ routines[kept].is_default = 1

====
